---- MODULE Spec2Model ----
(***************************************************************************)
(* Codex-32 orchestration core: bot registry, adaptive executor, container *)
(* engine and self-healing supervisor, as one asyncio event loop.          *)
(*                                                                         *)
(* Tasks share one cooperative event loop.  A task runs without being      *)
(* interleaved until it reaches an await that really suspends (to_thread,  *)
(* wait_for, asyncio.sleep); `cur` names the task that holds the loop.     *)
(* Handlers are split exactly at those suspension points.                  *)
(***************************************************************************)
EXTENDS Naturals, Integers, Sequences, FiniteSets, TLC

(* ------------------------------------------------------------------ *)
(* Bounds of the model                                                 *)
(* ------------------------------------------------------------------ *)
MaxTime == 6
MaxFailures == 2
MaxFaults == 2
MaxCrashes == 2
MaxApiCalls == 2
ExecMaxTime == 1
ExecMaxCrashes == 1
HealApiCalls == 1
FleetMaxTime == 3
RaceMaxTime == 3
RaceMaxCrashes == 1
ChunkCount == 2
MaxData == 2
MaxSaves == 2
MaxLoads == 2
MaxSaveFaults == 2
MaxRegOps == 2
MaxRecords == 2
MaxLines == 3
MaxLimit == 3
MaxTails == 2
TailWindow == 2
MaxEngOps == 4
MaxEngFaults == 1
MaxEngExits == 1
MaxLifeCalls == 4
MaxTickErrs == 1
MaxPatchOps == 4
MaxPatchFaults == 1
PersistApiCalls == 3
MonApiCalls == 3
SwitchMaxTime == 2

(* ------------------------------------------------------------------ *)
(* Program constants                                                   *)
(* ------------------------------------------------------------------ *)
IntervalSec == 1
BackoffCapSec == 60

Bots == {"b1", "b2"}
BotOrder == <<"b1", "b2">>
Data == 1..MaxData
Tasks == {"sup", "api"}

ST_CREATED == "created"
ST_DEPLOYING == "deploying"
ST_RUNNING == "running"
ST_STOPPED == "stopped"
ST_FAILED == "failed"
ST_ERROR == "error"

DT_LOCAL == "local_process"
DT_CONTAINER == "custom_container"

SpawnErrors == {"FileNotFoundError", "SubprocessError", "OSError"}

VARIABLES
    reg,          \* SecureRegistry._cache: bot id -> record
    regFile,      \* the registry file as last saved
    scriptOk,     \* bot id -> whether the resolved blueprint path exists
    procs,        \* OS children ever spawned: pid (index) -> "alive" | "zombie" | "reaped"
    rp,           \* AdaptiveExecutor.running_processes: bot id -> pid
    rc,           \* AdaptiveExecutor.running_containers: set of bot ids (name is bot-<id>)
    cont,         \* ContainerEngine.containers: bot id (of bot-<id>) -> [state, proc]
    pc,           \* task -> position
    ret,          \* task -> position to continue at when the executor call returns
    res,          \* task -> result of the last executor call (a value or an exception name)
    tb,           \* task -> bot id the task works on
    loc,          \* task -> the executor call's local copy of the bot record
    fb,           \* task -> run_bot is inside its `except ContainerError` fallback
    sp,           \* task -> pid of the Popen handle stop_bot popped
    ecalls,       \* task -> engine cleanup calls made by the current run_bot
    cur,          \* the task holding the event loop, or "none"
    snap,         \* supervisor tick: the bots list fetched at tick start
    now,          \* supervisor tick: utcnow() taken at tick start
    todo,         \* supervisor tick: bot ids still to examine
    hbot,         \* supervisor _handle_unhealthy: its `bot` dict
    abot,         \* start endpoint: its `bot_dict`
    sleepUntil,   \* supervisor loop: end of asyncio.sleep(interval_sec)
    failures,     \* RestartState.failures per bot id
    lastAttempt,  \* RestartState.last_attempt_at per bot id (-1: None)
    nextAllowed,  \* RestartState.next_allowed_at per bot id (-1: None)
    incidents,    \* IncidentLog file: sequence of [bot, kind]
    http,         \* status / body tag of the last API response
    clock,        \* wall clock, seconds
    horizon,      \* the last second the specification follows
    faultsLeft,   \* environment faults still to inject
    crashesLeft,  \* spontaneous child exits still to inject
    apiLeft,      \* API requests still to issue
    obs,          \* observer: consecutive _handle_unhealthy calls per bot
    qhold,        \* observer: bot quarantined and its status ERROR ever since
    healAt,       \* observer: wall-clock time of the bot's last heal attempt (-1: none)
    fsDir,        \* directory of the registry file: name -> inode
    fsData,       \* inode -> bytes written, as a sequence of chunks
    spc,          \* atomic_save_json: position of the call in progress
    scount,       \* atomic_save_json: calls made so far
    sdata,        \* atomic_save_json: the `data` argument
    tmpPathSet,   \* atomic_save_json: "tmp_path" in locals()
    sfailAt,      \* atomic_save_json: the step that raised, or "none"
    cleanup,      \* atomic_save_json: outcome of the except block's os.remove
    sres,         \* atomic_save_json: "ok" on return, "IOError" when it raised
    spre,         \* observer: content of the target when the save was called
    committed,    \* observer: the last content installed under the target name
    rpc,          \* load_json: position of the call in progress
    rfd,          \* load_json: inode of its open file
    rseen,        \* load_json: the bytes its last call read
    rcand,        \* observer: contents a load in progress is allowed to see
    rn,           \* load_json: calls completed
    fsFaults,     \* I/O errors still to inject
    cache,        \* SecureRegistry._cache: key -> bot dict
    saved,        \* the "bots" list in the registry file
    rop,          \* the last registry call and its arguments
    rret,         \* what that call returned or raised
    rhttp,        \* status of the API response, 0 for a direct call
    rcalls,       \* registry calls made so far
    rprev,        \* observer: the call before the last one, with its result
    logExists,    \* IncidentLog: the file exists
    logLines,     \* IncidentLog: the lines of the file
    tlimit,       \* IncidentLog.tail: the limit of the last call
    tout,         \* IncidentLog.tail: the list the last call returned
    tcalls,       \* IncidentLog.tail: calls made so far
    containers,   \* ContainerEngine.containers: name -> Container object (0: no entry)
    objs,         \* Container objects ever made: [name, state, process, monitor_task]
    children,     \* children the engine ever spawned: pid -> [owner, st]
    monitors,     \* _monitor tasks ever created: [owner, st]
    epc,          \* engine call in progress: "idle", or where Container.stop is suspended
    eop,          \* the last engine call: [op, name]
    eret,         \* what that call returned or raised
    estop,        \* what the last Container.stop returned or raised
    ecnt,         \* engine calls made so far
    efaults,      \* start errors and cancellations still to inject
    eexits,       \* spontaneous exits of container children still to inject
    stopEvent,    \* BotSupervisor._stop_event is set
    loopTasks,    \* _run_loop tasks ever created: [pc, cancel, err]
    supTask,      \* BotSupervisor._task: index into loopTasks (0: None)
    stopPc,       \* stop() in progress: "idle", "waiting" in wait_for, "timed_out"
    stopWaits,    \* the task stop() handed to wait_for
    lifeOp,       \* the last of start() / stop() to be called
    lifeRet,      \* how that call ended
    lifeCalls,    \* start() / stop() calls made so far
    tickErrs,     \* exceptions tick() may still raise
    patchFile,    \* codex32_patch_proposals.json: proposal id -> [status, applyable]
    workers,      \* request threads of the self router: [pc, op, id, p, data, ret]
    pcalls,       \* patch requests made so far
    pfaults,      \* failures of the patch file's save still to inject
    usage         \* what psutil reports of each bot's child: "normal", "cpu", "memory"

regVars == <<reg, regFile, qhold>>
execVars == <<rp, rc>>
taskVars == <<pc, ret, res, tb, loc, fb, sp, ecalls, cur, abot>>
supVars == <<snap, now, todo, hbot, sleepUntil, failures, lastAttempt, nextAllowed>>
envVars == <<scriptOk, clock, horizon, faultsLeft, crashesLeft, apiLeft>>
coreVars == <<regVars, execVars, cont, procs, taskVars, supVars, incidents, http, envVars, obs, healAt>>
fsVars == <<fsDir, fsData, spc, scount, sdata, tmpPathSet, sfailAt, cleanup, sres, spre, committed,
            rpc, rfd, rseen, rcand, rn, fsFaults>>
regyVars == <<cache, saved, rop, rret, rhttp, rcalls, rprev>>
tailVars == <<logExists, logLines, tlimit, tout, tcalls>>
engVars == <<containers, objs, children, monitors, epc, eop, eret, estop, ecnt, efaults, eexits>>
loopVars == <<stopEvent, loopTasks, supTask, stopPc, stopWaits, lifeOp, lifeRet, lifeCalls, tickErrs>>
patchVars == <<patchFile, workers, pcalls, pfaults>>
monVars == <<usage>>
extVars == <<engVars, loopVars, patchVars, monVars>>
libVars == <<fsVars, regyVars, tailVars, extVars>>
notEngVars == <<coreVars, fsVars, regyVars, tailVars, loopVars, patchVars, monVars>>
notLoopVars == <<coreVars, fsVars, regyVars, tailVars, engVars, patchVars, monVars>>
notPatchVars == <<coreVars, fsVars, regyVars, tailVars, engVars, loopVars, monVars>>
vars == <<coreVars, libVars>>

(* ------------------------------------------------------------------ *)
(* Dictionaries                                                        *)
(* ------------------------------------------------------------------ *)
Put(f, k, v) == [x \in (DOMAIN f) \cup {k} |-> IF x = k THEN v ELSE f[x]]
Del(f, k) == [x \in (DOMAIN f) \ {k} |-> f[x]]
EmptyDict == [x \in {} |-> 0]

NewRec(st, dt) == [status |-> st, dtype |-> dt, pid |-> 0, errs |-> 0, lerr |-> "none", logs |-> 0]
NoLoc == NewRec("none", DT_LOCAL)

(* ------------------------------------------------------------------ *)
(* Registry                                                            *)
(* ------------------------------------------------------------------ *)
\* _save after a cache change: the whole cache goes to the file.
RegWriteQ(newreg, quarantinedNow) ==
    /\ reg' = newreg
    /\ regFile' = newreg
    /\ qhold' = [b \in Bots |-> /\ b \in DOMAIN newreg
                                /\ newreg[b].status = ST_ERROR
                                /\ (qhold[b] \/ b \in quarantinedNow)]

\* update_bot(record): whole-record replace keyed by id, then _save.
UpdateBot(b, rec) == RegWriteQ([reg EXCEPT ![b] = rec], {})

(* ------------------------------------------------------------------ *)
(* Task plumbing                                                       *)
(* ------------------------------------------------------------------ *)
\* The task stays on the loop and moves to `label`.
Goto(t, label) ==
    /\ pc' = [pc EXCEPT ![t] = label]
    /\ cur' = t
    /\ UNCHANGED res

\* The task suspends at `label` (an await that yields to the loop).
Suspend(t, label) ==
    /\ pc' = [pc EXCEPT ![t] = label]
    /\ cur' = "none"
    /\ UNCHANGED res

\* The executor call returns value or exception r to its caller, which runs on.
Return(t, r) ==
    /\ pc' = [pc EXCEPT ![t] = ret[t]]
    /\ res' = [res EXCEPT ![t] = r]
    /\ cur' = t

\* A task may take the loop when nobody holds it; it keeps it while it runs.
Resumes(t, label) == pc[t] = label /\ cur = "none"
Continues(t, label) == pc[t] = label /\ cur = t

(* ------------------------------------------------------------------ *)
(* Adaptive executor: run_bot                                          *)
(* ------------------------------------------------------------------ *)
IsContainerMode(dt) == dt = DT_CONTAINER

\* `except ContainerError` prelude of run_bot: mark and persist, then go local.
ContainerFailedRec(L) == [L EXCEPT !.lerr = "container_failed_fallback", !.errs = L.errs + 1]

\* Variant: every exception is handled as an execution error.
OuterHandlerRecAlwaysError(L, e) == [L EXCEPT !.status = ST_ERROR, !.lerr = e, !.errs = L.errs + 1]

\* Variant: the handlers record the error but leave the status alone.
OuterHandlerRecKeepsStatus(L, e) == [L EXCEPT !.lerr = e, !.errs = L.errs + 1]

\* run_bot's outer handlers, by the type of the exception that reached them.
OuterHandlerRec(L, e) ==
    IF e = "FileNotFoundError"
    THEN [L EXCEPT !.status = ST_FAILED, !.lerr = "FileNotFoundError", !.errs = L.errs + 1]
    ELSE [L EXCEPT !.status = ST_ERROR, !.lerr = e, !.errs = L.errs + 1]

\* The nested handler for a local failure after a container failure.
BothFailedRec(L) == [L EXCEPT !.status = ST_ERROR, !.lerr = "container_and_local_failed", !.errs = L.errs + 1]

\* What run_bot leaves in the record when the local spawn raises e.
LocalFailureRec(L, inFallback, e) ==
    IF inFallback THEN OuterHandlerRec(BothFailedRec(L), e) ELSE OuterHandlerRec(L, e)

\* run_bot from its entry to its first suspension (or to a synchronous failure).
RunEntry(t) ==
    /\ Continues(t, "run_entry")
    /\ LET b == tb[t]
           L == loc[t]
           D == [L EXCEPT !.status = ST_DEPLOYING]
       IN
       IF b \notin DOMAIN reg
       THEN \* every update_bot raises ValueError, also the handlers' own
            /\ Return(t, "ValueError")
            /\ UNCHANGED <<regVars, cont, loc, fb, ecalls, faultsLeft>>
       ELSE IF ~scriptOk[b]
       THEN /\ UpdateBot(b, OuterHandlerRec(L, "FileNotFoundError"))
            /\ loc' = [loc EXCEPT ![t] = OuterHandlerRec(L, "FileNotFoundError")]
            /\ Return(t, "FileNotFoundError")
            /\ UNCHANGED <<cont, fb, ecalls, faultsLeft>>
       ELSE IF ~IsContainerMode(L.dtype)
       THEN /\ UpdateBot(b, D)
            /\ loc' = [loc EXCEPT ![t] = D]
            /\ fb' = [fb EXCEPT ![t] = FALSE]
            /\ ecalls' = [ecalls EXCEPT ![t] = <<>>]
            /\ Suspend(t, "run_lspawn")
            /\ UNCHANGED <<cont, faultsLeft>>
       ELSE \/ \* create_container succeeds; wait_for(start_container) suspends
               /\ b \notin DOMAIN cont
               /\ cont' = Put(cont, b, [state |-> "created", proc |-> 0])
               /\ UpdateBot(b, D)
               /\ loc' = [loc EXCEPT ![t] = D]
               /\ fb' = [fb EXCEPT ![t] = FALSE]
               /\ ecalls' = [ecalls EXCEPT ![t] = <<>>]
               /\ Suspend(t, "run_cstart")
               /\ UNCHANGED faultsLeft
            \/ \* create_container raises: the name exists, or the engine fails
               /\ \/ b \in DOMAIN cont /\ UNCHANGED faultsLeft
                  \/ b \notin DOMAIN cont /\ faultsLeft > 0 /\ faultsLeft' = faultsLeft - 1
               /\ UpdateBot(b, ContainerFailedRec(D))
               /\ loc' = [loc EXCEPT ![t] = ContainerFailedRec(D)]
               /\ fb' = [fb EXCEPT ![t] = TRUE]
               /\ ecalls' = [ecalls EXCEPT ![t] = <<>>]
               /\ Suspend(t, "run_lspawn")
               /\ UNCHANGED cont
    /\ UNCHANGED <<execVars, procs, ret, tb, sp, supVars, incidents, http,
                   scriptOk, clock, horizon, crashesLeft, apiLeft, obs, healAt, abot, libVars>>

\* A fresh OS child: its pid is its index in procs.
NewPid == Len(procs) + 1

\* run_bot resumes from wait_for(start_container(name), timeout=10).
RunCStart(t) ==
    /\ Resumes(t, "run_cstart")
    /\ LET b == tb[t]
           L == loc[t]
           R == [L EXCEPT !.status = ST_RUNNING, !.pid = NewPid]
       IN
       \/ \* Container.start spawned the child and returned True
          /\ b \in DOMAIN cont
          /\ b \in DOMAIN reg
          /\ procs' = Append(procs, "alive")
          /\ cont' = [cont EXCEPT ![b] = [state |-> "running", proc |-> NewPid]]
          /\ rc' = rc \cup {b}
          /\ UpdateBot(b, R)
          /\ loc' = [loc EXCEPT ![t] = R]
          /\ Return(t, "true")
          /\ UNCHANGED <<fb, ecalls, faultsLeft>>
       \/ \* Container.start failed (state FAILED, False): remove, ContainerError
          /\ b \in DOMAIN cont
          /\ b \in DOMAIN reg
          /\ faultsLeft > 0
          /\ faultsLeft' = faultsLeft - 1
          /\ cont' = Del(cont, b)
          /\ ecalls' = [ecalls EXCEPT ![t] = <<"remove_container">>]
          /\ UpdateBot(b, ContainerFailedRec(L))
          /\ loc' = [loc EXCEPT ![t] = ContainerFailedRec(L)]
          /\ fb' = [fb EXCEPT ![t] = TRUE]
          /\ Suspend(t, "run_lspawn")
          /\ UNCHANGED <<procs, rc>>
       \/ \* the start did not complete in 10 s: stop, remove, ContainerError
          /\ b \in DOMAIN cont
          /\ b \in DOMAIN reg
          /\ faultsLeft > 0
          /\ faultsLeft' = faultsLeft - 1
          /\ cont' = Del(cont, b)
          /\ ecalls' = [ecalls EXCEPT ![t] = <<"timeout", "stop_container", "remove_container">>]
          /\ UpdateBot(b, ContainerFailedRec(L))
          /\ loc' = [loc EXCEPT ![t] = ContainerFailedRec(L)]
          /\ fb' = [fb EXCEPT ![t] = TRUE]
          /\ Suspend(t, "run_lspawn")
          /\ UNCHANGED <<procs, rc>>
    /\ UNCHANGED <<rp, ret, tb, sp, supVars, incidents, http,
                   scriptOk, clock, horizon, crashesLeft, apiLeft, obs, healAt, abot, libVars>>

\* _run_bot_locally resumes from to_thread(subprocess.Popen, ...).
RunLSpawn(t) ==
    /\ Resumes(t, "run_lspawn")
    /\ LET b == tb[t]
           L == loc[t]
           R == [L EXCEPT !.status = ST_RUNNING, !.pid = NewPid]
       IN
       /\ b \in DOMAIN reg
       /\ \/ \* the child was spawned
             /\ procs' = Append(procs, "alive")
             /\ rp' = Put(rp, b, NewPid)
             /\ UpdateBot(b, R)
             /\ loc' = [loc EXCEPT ![t] = R]
             /\ Return(t, "true")
             /\ UNCHANGED faultsLeft
          \/ \* Popen raised e
             \E e \in SpawnErrors :
                /\ faultsLeft > 0
                /\ faultsLeft' = faultsLeft - 1
                /\ UpdateBot(b, LocalFailureRec(L, fb[t], e))
                /\ loc' = [loc EXCEPT ![t] = LocalFailureRec(L, fb[t], e)]
                /\ Return(t, e)
                /\ UNCHANGED <<procs, rp>>
    /\ UNCHANGED <<rc, cont, ret, tb, fb, sp, ecalls, supVars, incidents, http,
                   scriptOk, clock, horizon, crashesLeft, apiLeft, obs, healAt, abot, libVars>>

(* ------------------------------------------------------------------ *)
(* Adaptive executor: stop_bot                                         *)
(* ------------------------------------------------------------------ *)
\* The record stop_bot writes after a stop: STOPPED plus one lifecycle entry.
StoppedRec(L) == [L EXCEPT !.status = ST_STOPPED, !.logs = L.logs + 1]

\* The record stop_bot writes when stopping the local process raised.
StopFailedRec(L) == [L EXCEPT !.status = ST_ERROR, !.lerr = "stop_failed"]

\* Variant: the untracked stop still marks the record stopped.
StopUntrackedMarksStopped(t) ==
    /\ Return(t, "false")
    /\ IF tb[t] \in DOMAIN reg
       THEN UpdateBot(tb[t], StoppedRec(reg[tb[t]]))
       ELSE UNCHANGED regVars
    /\ UNCHANGED <<cont, procs, loc, sp>>

\* What stop_bot does for a bot in neither tracking map: nothing, return False.
StopUntracked(t) ==
    /\ Return(t, "false")
    /\ UNCHANGED <<regVars, cont, procs, loc, sp>>

\* stop_bot from its entry to its first suspension.
StopEntry(t) ==
    /\ Continues(t, "stop_entry")
    /\ LET b == tb[t]
           inC == b \in rc
           p == IF b \in DOMAIN rp THEN rp[b] ELSE 0
           L == IF b \in DOMAIN reg THEN reg[b] ELSE NoLoc
       IN
       /\ rc' = rc \ {b}
       /\ rp' = Del(rp, b)
       /\ IF inC
          THEN IF b \notin DOMAIN cont
               THEN \* stop_container raises ValueError: caught, return False
                    /\ Return(t, "false")
                    /\ UNCHANGED <<regVars, cont, procs, loc, sp>>
               ELSE IF cont[b].proc = 0
               THEN \* never started: stop returns True at once; remove, write
                    /\ cont' = Del(cont, b)
                    /\ IF b \in DOMAIN reg
                       THEN UpdateBot(b, StoppedRec(L))
                       ELSE UNCHANGED regVars
                    /\ loc' = [loc EXCEPT ![t] = L]
                    /\ Return(t, "true")
                    /\ UNCHANGED <<procs, sp>>
               ELSE IF procs[cont[b].proc] \in {"alive", "zombie"}
               THEN \* SIGTERM sent; Container.stop polls with asyncio.sleep(0.1)
                    \* and awaits the cancelled monitor task
                    /\ loc' = [loc EXCEPT ![t] = L]
                    /\ Suspend(t, "stop_cwait")
                    /\ UNCHANGED <<regVars, cont, procs, sp>>
               ELSE \* child already reaped: killpg raises, stop returns False;
                    \* stop_bot sleeps 0.25 s and retries
                    /\ loc' = [loc EXCEPT ![t] = L]
                    /\ Suspend(t, "stop_cretry")
                    /\ UNCHANGED <<regVars, cont, procs, sp>>
          ELSE IF p = 0
          THEN StopUntracked(t)
          ELSE \* SIGTERM sent; wait_for(to_thread(process.wait, 5), 6) suspends
               /\ loc' = [loc EXCEPT ![t] = L]
               /\ sp' = [sp EXCEPT ![t] = p]
               /\ Suspend(t, "stop_lwait")
               /\ UNCHANGED <<regVars, cont, procs>>
    /\ UNCHANGED <<ret, tb, fb, ecalls, supVars, incidents, http, envVars, obs, healAt, abot, libVars>>

\* The child a suspended stop_bot has signalled.
SignalledChild(t) ==
    IF pc[t] = "stop_lwait" THEN sp[t]
    ELSE IF pc[t] = "stop_cwait" /\ tb[t] \in DOMAIN cont THEN cont[tb[t]].proc
    ELSE 0

\* Container.stop sees the child gone; stop_bot removes the container and writes.
StopCWait(t) ==
    /\ Resumes(t, "stop_cwait")
    /\ SignalledChild(t) = 0 \/ procs[SignalledChild(t)] # "alive"
    /\ LET b == tb[t]
           L == loc[t]
       IN
       /\ IF b \in DOMAIN cont
          THEN /\ procs' = IF cont[b].proc = 0 THEN procs
                           ELSE [procs EXCEPT ![cont[b].proc] = "reaped"]
               /\ cont' = Del(cont, b)
          ELSE UNCHANGED <<procs, cont>>
       /\ IF b \in DOMAIN reg /\ L.status # "none"
          THEN UpdateBot(b, StoppedRec(L))
          ELSE UNCHANGED regVars
       /\ Return(t, "true")
    /\ UNCHANGED <<execVars, ret, tb, loc, fb, sp, ecalls, supVars, incidents, http,
                   envVars, obs, healAt, abot, libVars>>

\* The retry of stop_container fails too; remove, write STOPPED, return False.
StopCRetry(t) ==
    /\ Resumes(t, "stop_cretry")
    /\ LET b == tb[t]
           L == loc[t]
       IN
       /\ cont' = IF b \in DOMAIN cont THEN Del(cont, b) ELSE cont
       /\ IF b \in DOMAIN reg /\ L.status # "none"
          THEN UpdateBot(b, StoppedRec(L))
          ELSE UNCHANGED regVars
       /\ Return(t, "false")
    /\ UNCHANGED <<execVars, procs, ret, tb, loc, fb, sp, ecalls, supVars, incidents, http,
                   envVars, obs, healAt, abot, libVars>>

\* stop_bot resumes from waiting for the local child.
StopLWait(t) ==
    /\ Resumes(t, "stop_lwait")
    /\ LET b == tb[t]
           L == loc[t]
           p == sp[t]
       IN
       \/ \* the child exited within 5 s and was reaped by wait()
          /\ procs[p] # "alive"
          /\ procs' = [procs EXCEPT ![p] = "reaped"]
          /\ IF b \in DOMAIN reg /\ L.status # "none"
             THEN UpdateBot(b, StoppedRec(L))
             ELSE UNCHANGED regVars
          /\ Return(t, "true")
       \/ \* the child ignores SIGTERM: process.wait raises TimeoutExpired after
          \* 5 s, which `except asyncio.TimeoutError` does not catch
          /\ procs[p] = "alive"
          /\ IF b \in DOMAIN reg /\ L.status # "none"
             THEN UpdateBot(b, StopFailedRec(L))
             ELSE UNCHANGED regVars
          /\ Return(t, "false")
          /\ UNCHANGED procs
    /\ UNCHANGED <<execVars, cont, ret, tb, loc, fb, sp, ecalls, supVars, incidents, http,
                   envVars, obs, healAt, abot, libVars>>

(* ------------------------------------------------------------------ *)
(* HTTP control plane: POST /bots/{id}/start and /stop                 *)
(* ------------------------------------------------------------------ *)
SupervisedAlsoFailed(st) == st \in {ST_RUNNING, ST_DEPLOYING, ST_FAILED}
Supervised(st) == st \in {ST_RUNNING, ST_DEPLOYING}

\* The request handler's frame is gone once the response is sent.
ApiFrameDropped ==
    /\ pc' = [pc EXCEPT !["api"] = "idle"]
    /\ cur' = "none"
    /\ res' = [res EXCEPT !["api"] = "none"]
    /\ ret' = [ret EXCEPT !["api"] = "idle"]
    /\ tb' = [tb EXCEPT !["api"] = "b1"]
    /\ loc' = [loc EXCEPT !["api"] = NoLoc]
    /\ fb' = [fb EXCEPT !["api"] = FALSE]
    /\ sp' = [sp EXCEPT !["api"] = 0]
    /\ ecalls' = [ecalls EXCEPT !["api"] = <<>>]
    /\ abot' = NoLoc

\* start_bot up to the call of executor.run_bot(bot_dict).
ApiStart(b) ==
    /\ Resumes("api", "idle")
    /\ apiLeft > 0
    /\ apiLeft' = apiLeft - 1
    /\ IF b \notin DOMAIN reg
       THEN /\ http' = "404"
            /\ UNCHANGED <<pc, ret, res, tb, loc, cur, abot>>
       ELSE IF Supervised(reg[b].status)
       THEN /\ http' = "already_running"
            /\ UNCHANGED <<pc, ret, res, tb, loc, cur, abot>>
       ELSE /\ http' = "pending"
            /\ tb' = [tb EXCEPT !["api"] = b]
            /\ abot' = reg[b]
            /\ loc' = [loc EXCEPT !["api"] = reg[b]]
            /\ ret' = [ret EXCEPT !["api"] = "api_start_done"]
            /\ Goto("api", "run_entry")
    /\ UNCHANGED <<regVars, execVars, cont, procs, fb, sp, ecalls, supVars, incidents,
                   scriptOk, clock, horizon, faultsLeft, crashesLeft, obs, healAt, libVars>>

\* The response code start_bot gives for run_bot's outcome.
StartResponse(r) ==
    IF r = "true" THEN "200"
    ELSE IF r = "FileNotFoundError" THEN "400"
    ELSE "500"

ApiStartDone ==
    /\ Continues("api", "api_start_done")
    /\ http' = StartResponse(res["api"])
    /\ ApiFrameDropped
    /\ UNCHANGED <<regVars, execVars, cont, procs, supVars, incidents, envVars, obs, healAt, libVars>>

\* stop_bot endpoint up to the call of executor.stop_bot.
ApiStop(b) ==
    /\ Resumes("api", "idle")
    /\ apiLeft > 0
    /\ apiLeft' = apiLeft - 1
    /\ IF b \notin DOMAIN reg
       THEN /\ http' = "404"
            /\ UNCHANGED <<pc, ret, res, tb, cur>>
       ELSE /\ http' = "pending"
            /\ tb' = [tb EXCEPT !["api"] = b]
            /\ ret' = [ret EXCEPT !["api"] = "api_stop_done"]
            /\ Goto("api", "stop_entry")
    /\ UNCHANGED <<regVars, execVars, cont, procs, loc, fb, sp, ecalls, abot, supVars, incidents,
                   scriptOk, clock, horizon, faultsLeft, crashesLeft, obs, healAt, libVars>>

ApiStopDone ==
    /\ Continues("api", "api_stop_done")
    /\ http' = IF res["api"] = "true" THEN "200" ELSE "200_not_running"
    /\ ApiFrameDropped
    /\ UNCHANGED <<regVars, execVars, cont, procs, supVars, incidents, envVars, obs, healAt, libVars>>

(* ------------------------------------------------------------------ *)
(* Supervisor                                                          *)
(* ------------------------------------------------------------------ *)
RECURSIVE Pow2(_)
Pow2(n) == IF n = 0 THEN 1 ELSE 2 * Pow2(n - 1)

Min(a, c) == IF a < c THEN a ELSE c

\* timedelta(seconds=min(60, 2 ** st.failures))
Backoff(f) == Min(BackoffCapSec, Pow2(f))

\* The deadline _handle_unhealthy stores in next_allowed_at.
BackoffDeadline(f) == now + Backoff(f)

Incident(b, kind) == [bot |-> b, kind |-> kind]

\* _record: IncidentLog.append opens the file in mode "a" and writes one line.
RecordTruncates(log, b, kind) == <<Incident(b, kind)>>
Record(log, b, kind) == Append(log, Incident(b, kind))

\* _is_bot_healthy on the tick's copy of the record.
IsBotHealthy(b, rec) ==
    IF b \in rc
    THEN b \in DOMAIN cont /\ cont[b].state = "running"
    ELSE rec.pid # 0 /\ procs[rec.pid] = "alive"

\* Bot ids in the order get_all_bots returns them.
RegisteredOrder == SelectSeq(BotOrder, LAMBDA b : b \in DOMAIN reg)

\* _handle_unhealthy returns to tick's for loop; its frame is gone.
BackToTick ==
    /\ pc' = [pc EXCEPT !["sup"] = "tick"]
    /\ cur' = "sup"
    /\ res' = [res EXCEPT !["sup"] = "none"]
    /\ ret' = [ret EXCEPT !["sup"] = "idle"]
    /\ tb' = [tb EXCEPT !["sup"] = "b1"]
    /\ loc' = [loc EXCEPT !["sup"] = NoLoc]
    /\ fb' = [fb EXCEPT !["sup"] = FALSE]
    /\ sp' = [sp EXCEPT !["sup"] = 0]
    /\ ecalls' = [ecalls EXCEPT !["sup"] = <<>>]
    /\ hbot' = NoLoc

\* _run_loop wakes from asyncio.sleep and tick() takes its snapshot and `now`.
TickBegin ==
    /\ Resumes("sup", "sleep")
    /\ clock >= sleepUntil
    /\ snap' = reg
    /\ now' = clock
    /\ todo' = RegisteredOrder
    /\ Goto("sup", "tick")
    /\ UNCHANGED <<regVars, execVars, cont, procs, ret, tb, loc, fb, sp, ecalls,
                   hbot, sleepUntil, failures, lastAttempt, nextAllowed,
                   incidents, http, envVars, obs, healAt, abot, libVars>>

\* One iteration of tick's for loop up to the call of _handle_unhealthy.
TickExamine ==
    /\ Continues("sup", "tick")
    /\ todo # <<>>
    /\ LET b == Head(todo)
           rec == snap[b]
       IN
       /\ todo' = Tail(todo)
       /\ IF ~Supervised(rec.status)
          THEN /\ Goto("sup", "tick")
               /\ UNCHANGED <<tb, hbot, obs>>
          ELSE IF IsBotHealthy(b, rec)
          THEN /\ Goto("sup", "tick")
               /\ obs' = [obs EXCEPT ![b] = 0]
               /\ UNCHANGED <<tb, hbot>>
          ELSE /\ Goto("sup", "handle")
               /\ tb' = [tb EXCEPT !["sup"] = b]
               /\ hbot' = rec
               /\ UNCHANGED obs
    /\ UNCHANGED <<regVars, execVars, cont, procs, ret, loc, fb, sp, ecalls,
                   snap, now, sleepUntil, failures, lastAttempt, nextAllowed,
                   incidents, http, envVars, healAt, abot, libVars>>

\* tick() returns; _run_loop sleeps interval_sec.
TickEnd ==
    /\ Continues("sup", "tick")
    /\ todo = <<>>
    /\ sleepUntil' = clock + IntervalSec
    /\ snap' = EmptyDict
    /\ now' = 0
    /\ Suspend("sup", "sleep")
    /\ UNCHANGED <<regVars, execVars, cont, procs, ret, tb, loc, fb, sp, ecalls,
                   todo, hbot, failures, lastAttempt, nextAllowed,
                   incidents, http, envVars, obs, healAt, abot, libVars>>

\* Variant: no backoff gate.
NeverGated(b) == FALSE

\* The backoff gate of _handle_unhealthy.
Gated(b) == nextAllowed[b] # -1 /\ now < nextAllowed[b]

\* Variant: the limit tested one attempt late.
OverLimitOffByOne(f) == f > MaxFailures + 1

\* The quarantine test of _handle_unhealthy, on the incremented counter.
OverLimit(f) == f > MaxFailures

\* Variant: the quarantine records its reason but leaves the status alone.
QuarantinedRecKeepsStatus(L) == [L EXCEPT !.lerr = "quarantined"]

\* The record the quarantine branch writes.
QuarantinedRec(L) == [L EXCEPT !.status = ST_ERROR, !.lerr = "quarantined"]

\* _handle_unhealthy up to its first executor call.
Handle ==
    /\ Continues("sup", "handle")
    /\ LET b == tb["sup"]
           f == failures[b] + 1
       IN
       /\ obs' = [obs EXCEPT ![b] = obs[b] + 1]
       /\ IF Gated(b)
          THEN /\ BackToTick
               /\ UNCHANGED <<regVars, failures, lastAttempt, incidents, healAt>>
          ELSE /\ failures' = [failures EXCEPT ![b] = f]
               /\ lastAttempt' = [lastAttempt EXCEPT ![b] = now]
               /\ IF OverLimit(f)
                  THEN /\ IF b \in DOMAIN reg
                          THEN /\ RegWriteQ([reg EXCEPT ![b] = QuarantinedRec(hbot)], {b})
                               /\ incidents' = Record(incidents, b, "quarantined")
                          ELSE \* update_bot raises; tick() ends with the exception
                               /\ UNCHANGED <<regVars, incidents>>
                       /\ BackToTick
                       /\ UNCHANGED healAt
                  ELSE /\ incidents' = Record(incidents, b, "unhealthy")
                       /\ healAt' = [healAt EXCEPT ![b] = clock]
                       /\ ret' = [ret EXCEPT !["sup"] = "h_run1"]
                       /\ Goto("sup", "stop_entry")
                       /\ UNCHANGED <<regVars, hbot, tb, loc, fb, sp, ecalls>>
    /\ UNCHANGED <<execVars, cont, procs,
                   snap, now, todo, sleepUntil, nextAllowed, http, envVars, abot, libVars>>

\* After the best-effort stop: executor.run_bot(bot) in the original mode.
HealRun ==
    /\ Continues("sup", "h_run1")
    /\ loc' = [loc EXCEPT !["sup"] = hbot]
    /\ ret' = [ret EXCEPT !["sup"] = "h_after1"]
    /\ Goto("sup", "run_entry")
    /\ UNCHANGED <<regVars, execVars, cont, procs, tb, fb, sp, ecalls, supVars,
                   incidents, http, envVars, obs, healAt, abot, libVars>>

\* The record the fallback writes before its second run_bot.
FallbackRec(L) == [L EXCEPT !.dtype = DT_LOCAL]

\* After the first run_bot: restart recorded, or restart_failed and the fallback.
HealAfterRun ==
    /\ Continues("sup", "h_after1")
    /\ LET b == tb["sup"] IN
       IF res["sup"] = "true"
       THEN /\ nextAllowed' = [nextAllowed EXCEPT ![b] = BackoffDeadline(failures[b])]
            /\ incidents' = Record(incidents, b, "restart")
            /\ BackToTick
            /\ UNCHANGED regVars
       ELSE IF IsContainerMode(hbot.dtype) /\ b \in DOMAIN reg
       THEN /\ hbot' = FallbackRec(hbot)
            /\ UpdateBot(b, FallbackRec(hbot))
            /\ incidents' = Record(incidents, b, "restart_failed")
            /\ loc' = [loc EXCEPT !["sup"] = FallbackRec(hbot)]
            /\ ret' = [ret EXCEPT !["sup"] = "h_after2"]
            /\ Goto("sup", "run_entry")
            /\ UNCHANGED <<nextAllowed, tb, fb, sp, ecalls>>
       ELSE IF IsContainerMode(hbot.dtype)
       THEN \* the fallback's update_bot raises: fallback_failed
            /\ incidents' = Record(Record(incidents, b, "restart_failed"), b, "fallback_failed")
            /\ nextAllowed' = [nextAllowed EXCEPT ![b] = BackoffDeadline(failures[b])]
            /\ BackToTick
            /\ UNCHANGED regVars
       ELSE /\ incidents' = Record(incidents, b, "restart_failed")
            /\ nextAllowed' = [nextAllowed EXCEPT ![b] = BackoffDeadline(failures[b])]
            /\ BackToTick
            /\ UNCHANGED regVars
    /\ UNCHANGED <<execVars, cont, procs,
                   snap, now, todo, sleepUntil, failures, lastAttempt,
                   http, envVars, obs, healAt, abot, libVars>>

FallbackRecordedAsRestart(r) == IF r = "true" THEN "restart" ELSE "restart_failed"

\* The incident of the fallback's run_bot: it returned True, or it raised.
FallbackOutcome(r) == IF r = "true" THEN "fallback" ELSE "fallback_failed"

\* After the fallback's run_bot: fallback or fallback_failed, then the deadline.
HealAfterFallback ==
    /\ Continues("sup", "h_after2")
    /\ LET b == tb["sup"] IN
       /\ nextAllowed' = [nextAllowed EXCEPT ![b] = BackoffDeadline(failures[b])]
       /\ incidents' = Record(incidents, b, FallbackOutcome(res["sup"]))
       /\ BackToTick
    /\ UNCHANGED <<regVars, execVars, cont, procs,
                   snap, now, todo, sleepUntil, failures, lastAttempt,
                   http, envVars, obs, healAt, abot, libVars>>

(* ------------------------------------------------------------------ *)
(* Environment                                                         *)
(* ------------------------------------------------------------------ *)
\* One second passes while no task holds the loop.
Advance ==
    /\ cur = "none"
    /\ clock < horizon
    /\ clock' = clock + 1
    /\ UNCHANGED <<regVars, execVars, cont, procs, taskVars, supVars, incidents, http,
                   scriptOk, horizon, faultsLeft, crashesLeft, apiLeft, obs, healAt, libVars>>

\* A child process exits on its own.
ChildExit(p) ==
    /\ cur = "none"
    /\ crashesLeft > 0
    /\ procs[p] = "alive"
    /\ procs' = [procs EXCEPT ![p] = "zombie"]
    /\ crashesLeft' = crashesLeft - 1
    /\ UNCHANGED <<regVars, execVars, cont, taskVars, supVars, incidents, http,
                   scriptOk, clock, horizon, faultsLeft, apiLeft, obs, healAt, libVars>>

\* The child exits on the SIGTERM that stop_bot or Container.stop sent it.
TermExit(t) ==
    /\ cur = "none"
    /\ SignalledChild(t) # 0
    /\ procs[SignalledChild(t)] = "alive"
    /\ procs' = [procs EXCEPT ![SignalledChild(t)] = "zombie"]
    /\ UNCHANGED <<regVars, execVars, cont, taskVars, supVars, incidents, http,
                   envVars, obs, healAt, libVars>>

\* Container._monitor: process.poll() finds the child gone and the loop ends.
MonitorExit(b) ==
    /\ cur = "none"
    /\ b \in DOMAIN cont
    /\ cont[b].proc # 0
    /\ procs[cont[b].proc] = "zombie"
    /\ procs' = [procs EXCEPT ![cont[b].proc] = "reaped"]
    /\ UNCHANGED <<regVars, execVars, cont, taskVars, supVars, incidents, http,
                   envVars, obs, healAt, libVars>>

(* ------------------------------------------------------------------ *)
(* utils.atomic_save_json / utils.load_json over a POSIX directory     *)
(* ------------------------------------------------------------------ *)
\* A directory maps names to inodes; fsData holds each inode's bytes as a
\* sequence of chunks.  An open file descriptor names the inode, not the name.
TargetName == <<"registry.json", 0>>
TmpName(k) == <<"tmp", k>>

\* The file json.dump writes into: the NamedTemporaryFile of this call.
DumpInPlace(k) == TargetName
DumpName(k) == TmpName(k)

\* json.dump(data, f, indent=4) emits the text in ChunkCount writes.
Ser(d) == [i \in 1..ChunkCount |-> <<d, i>>]
IsComplete(bytes) == \E d \in Data : bytes = Ser(d)

Absent == [exists |-> FALSE, bytes |-> <<>>]
File(bytes) == [exists |-> TRUE, bytes |-> bytes]
\* What a directory lookup of `name` followed by a full read yields.
Content(name) == IF name \in DOMAIN fsDir THEN File(fsData[fsDir[name]]) ELSE Absent

SaveRunning == spc \notin {"idle", "returned"}

\* `raise IOError(...) from e` at the end of the except block.
OutcomeOnlyOnDoubleFailure(cl) == IF cl = "failed" THEN "IOError" ELSE "ok"
SaveFailureOutcome(cl) == "IOError"

\* A caller enters atomic_save_json(data, filename).
SaveCall(d) ==
    /\ spc \in {"idle", "returned"}
    /\ scount < MaxSaves
    /\ scount' = scount + 1
    /\ spc' = "create"
    /\ sdata' = d
    /\ tmpPathSet' = FALSE
    /\ sfailAt' = "none"
    /\ cleanup' = "none"
    /\ sres' = "none"
    /\ spre' = Content(TargetName)
    /\ rcand' = IF rpc = "open" THEN rcand \cup {File(Ser(d))} ELSE rcand
    /\ UNCHANGED <<fsDir, fsData, committed, rpc, rfd, rseen, rn, fsFaults, coreVars, extVars, regyVars, tailVars>>

\* os.makedirs and NamedTemporaryFile(dir=path, delete=False, suffix=".tmp").
SaveCreate ==
    /\ spc = "create"
    /\ \/ /\ fsData' = Append(fsData, <<>>)
          /\ fsDir' = Put(fsDir, DumpName(scount), Len(fsData) + 1)
          /\ spc' = "dump"
          /\ UNCHANGED <<sfailAt, fsFaults>>
       \/ /\ fsFaults > 0
          /\ fsFaults' = fsFaults - 1
          /\ spc' = "except"
          /\ sfailAt' = "create"
          /\ UNCHANGED <<fsDir, fsData>>
    /\ UNCHANGED <<scount, sdata, tmpPathSet, cleanup, sres, spre, committed, rpc, rfd, rseen,
                   rcand, rn, coreVars, extVars, regyVars, tailVars>>

\* json.dump writes the next chunk, or raises (TypeError on a value that is
\* not serialisable, OSError on a full disk) with the chunks so far written.
SaveDump ==
    /\ spc = "dump"
    /\ Len(fsData[fsDir[DumpName(scount)]]) < ChunkCount
    /\ \/ /\ fsData' = [fsData EXCEPT ![fsDir[DumpName(scount)]] =
                            Append(@, Ser(sdata)[Len(@) + 1])]
          /\ UNCHANGED <<spc, sfailAt, fsFaults>>
       \/ /\ fsFaults > 0
          /\ fsFaults' = fsFaults - 1
          /\ spc' = "except"
          /\ sfailAt' = "dump"
          /\ UNCHANGED fsData
    /\ UNCHANGED <<fsDir, scount, sdata, tmpPathSet, cleanup, sres, spre, committed, rpc, rfd,
                   rseen, rcand, rn, coreVars, extVars, regyVars, tailVars>>

\* json.dump returned: `tmp_path = tmp_file.name`, and the with block closes
\* the file.
SaveClose ==
    /\ spc = "dump"
    /\ Len(fsData[fsDir[DumpName(scount)]]) = ChunkCount
    /\ tmpPathSet' = TRUE
    /\ spc' = "fsync"
    /\ UNCHANGED <<fsDir, fsData, scount, sdata, sfailAt, cleanup, sres, spre, committed, rpc,
                   rfd, rseen, rcand, rn, fsFaults, coreVars, extVars, regyVars, tailVars>>

\* open(tmp_path, "rb") and os.fsync.
SaveFsync ==
    /\ spc = "fsync"
    /\ \/ /\ spc' = "replace"
          /\ UNCHANGED <<sfailAt, fsFaults>>
       \/ /\ fsFaults > 0
          /\ fsFaults' = fsFaults - 1
          /\ spc' = "except"
          /\ sfailAt' = "fsync"
    /\ UNCHANGED <<fsDir, fsData, scount, sdata, tmpPathSet, cleanup, sres, spre, committed,
                   rpc, rfd, rseen, rcand, rn, coreVars, extVars, regyVars, tailVars>>

\* os.replace(tmp_path, filename): one atomic change of the directory.
SaveReplace ==
    /\ spc = "replace"
    /\ \/ /\ fsDir' = Del(Put(fsDir, TargetName, fsDir[DumpName(scount)]),
                          IF DumpName(scount) = TargetName THEN TmpName(scount)
                          ELSE DumpName(scount))
          /\ committed' = File(Ser(sdata))
          /\ spc' = "returned"
          /\ sres' = "ok"
          /\ UNCHANGED <<sfailAt, fsFaults>>
       \/ /\ fsFaults > 0
          /\ fsFaults' = fsFaults - 1
          /\ spc' = "except"
          /\ sfailAt' = "replace"
          /\ UNCHANGED <<fsDir, committed, sres>>
    /\ UNCHANGED <<fsData, scount, sdata, tmpPathSet, cleanup, spre, rpc, rfd, rseen, rcand,
                   rn, coreVars, extVars, regyVars, tailVars>>

\* except Exception: remove the temp file if tmp_path is bound and the file
\* exists (a failing os.remove is logged), then raise.
SaveExcept ==
    /\ spc = "except"
    /\ \/ /\ tmpPathSet /\ DumpName(scount) \in DOMAIN fsDir
          /\ \/ /\ fsDir' = Del(fsDir, DumpName(scount))
                /\ cleanup' = "ok"
                /\ sres' = SaveFailureOutcome("ok")
                /\ UNCHANGED fsFaults
             \/ /\ fsFaults > 0
                /\ fsFaults' = fsFaults - 1
                /\ cleanup' = "failed"
                /\ sres' = SaveFailureOutcome("failed")
                /\ UNCHANGED fsDir
       \/ /\ ~(tmpPathSet /\ DumpName(scount) \in DOMAIN fsDir)
          /\ cleanup' = "skipped"
          /\ sres' = SaveFailureOutcome("skipped")
          /\ UNCHANGED <<fsDir, fsFaults>>
    /\ spc' = "returned"
    /\ UNCHANGED <<fsData, scount, sdata, tmpPathSet, sfailAt, spre, committed, rpc, rfd,
                   rseen, rcand, rn, coreVars, extVars, regyVars, tailVars>>

\* load_json: os.path.exists(filename) and open(filename, "r").
LoadOpen ==
    /\ rpc = "idle"
    /\ rn < MaxLoads
    /\ rcand' = {committed} \cup (IF SaveRunning THEN {File(Ser(sdata))} ELSE {})
    /\ IF TargetName \in DOMAIN fsDir
       THEN /\ rfd' = fsDir[TargetName]
            /\ rpc' = "open"
            /\ UNCHANGED <<rseen, rn>>
       ELSE /\ rseen' = Absent
            /\ rn' = rn + 1
            /\ UNCHANGED <<rfd, rpc>>
    /\ UNCHANGED <<fsDir, fsData, spc, scount, sdata, tmpPathSet, sfailAt, cleanup, sres, spre,
                   committed, fsFaults, coreVars, extVars, regyVars, tailVars>>

\* load_json: json.load(f) reads the open file to its end.
LoadRead ==
    /\ rpc = "open"
    /\ rseen' = File(fsData[rfd])
    /\ rn' = rn + 1
    /\ rpc' = "idle"
    /\ rfd' = 0
    /\ UNCHANGED <<fsDir, fsData, spc, scount, sdata, tmpPathSet, sfailAt, cleanup, sres, spre,
                   committed, rcand, fsFaults, coreVars, extVars, regyVars, tailVars>>

\* No save and no load in progress; the registry file holds `c`.
FsIdle(c) ==
    /\ fsData = IF c.exists THEN <<c.bytes>> ELSE <<>>
    /\ fsDir = IF c.exists THEN [n \in {TargetName} |-> 1] ELSE [n \in {} |-> 0]
    /\ committed = c
    /\ spc = "idle"
    /\ scount = 0
    /\ sdata = 1
    /\ tmpPathSet = FALSE
    /\ sfailAt = "none"
    /\ cleanup = "none"
    /\ sres = "none"
    /\ spre = c
    /\ rpc = "idle"
    /\ rfd = 0
    /\ rseen = Absent
    /\ rcand = {}
    /\ rn = 0

(* ------------------------------------------------------------------ *)
(* SecureRegistry: the id-keyed cache and its operations               *)
(* ------------------------------------------------------------------ *)
\* Bot dicts carry the fields id, name and status; MISSING marks a key the
\* dict does not have, NoneVal the value None (JSON null).
MISSING == "<missing>"
NoneVal == "<None>"
BotDict(i, n, s) == [id |-> i, name |-> n, status |-> s]
\* An entry of the file's "bots" list that is not a dict.
NotADict == BotDict("<list>", "<list>", "<list>")

RawIds == {"a", " a", "b", "", " ", NoneVal}
LookupIds == {"a", " a", "b", "None"}

\* d.get(f, default), str(v) and s.strip() on the values above.
Get(d, f, default) == IF d[f] = MISSING THEN default ELSE d[f]
Str(v) == IF v = NoneVal THEN "None" ELSE v
Strip(s) == CASE s = " a" -> "a" [] s = " " -> "" [] OTHER -> s
\* bot_id = str(d.get("id", "")).strip()
BotId(d) == Strip(Str(Get(d, "id", "")))

\* The loop shared by _load_initial_data and import_registry: entries that
\* are not dicts or have an empty id are skipped, a later entry with the same
\* id replaces an earlier one.
RECURSIVE LoadBots(_, _)
LoadBots(entries, acc) ==
    IF entries = <<>> THEN acc
    ELSE LET d == Head(entries) IN
         IF d = NotADict \/ BotId(d) = ""
         THEN LoadBots(Tail(entries), acc)
         ELSE LoadBots(Tail(entries), Put(acc, BotId(d), d))

load_initial_data(entries) == LoadBots(entries, EmptyDict)

\* _save: the "bots" list written to the registry file.
KeyOrder == <<"a", "b", "None">>
SaveBots(c) ==
    LET ks == SelectSeq(KeyOrder, LAMBDA k : k \in DOMAIN c)
    IN  [i \in 1..Len(ks) |-> c[ks[i]]]

\* Each operation yields the cache it leaves, what it returns or raises, and
\* whether it reached _save.
Outcome(c, r, w) == [cache |-> c, ret |-> r, wrote |-> w]

RegisterOverwrites(c, d) ==
    IF BotId(d) = "" THEN Outcome(c, "ValueError:empty", FALSE)
    ELSE Outcome(Put(c, BotId(d), d), "ok", TRUE)
register_bot(c, d) ==
    IF BotId(d) = "" THEN Outcome(c, "ValueError:empty", FALSE)
    ELSE IF BotId(d) \in DOMAIN c THEN Outcome(c, "ValueError:exists", FALSE)
    ELSE Outcome(Put(c, BotId(d), d), "ok", TRUE)

UpdateMergesFields(c, d) ==
    IF BotId(d) = "" THEN Outcome(c, "ValueError:empty", FALSE)
    ELSE IF BotId(d) \notin DOMAIN c THEN Outcome(c, "ValueError:notfound", FALSE)
    ELSE Outcome(Put(c, BotId(d),
                     [f \in DOMAIN d |-> IF d[f] = MISSING THEN c[BotId(d)][f] ELSE d[f]]),
                 "ok", TRUE)
update_bot(c, d) ==
    IF BotId(d) = "" THEN Outcome(c, "ValueError:empty", FALSE)
    ELSE IF BotId(d) \notin DOMAIN c THEN Outcome(c, "ValueError:notfound", FALSE)
    ELSE Outcome(Put(c, BotId(d), d), "ok", TRUE)

\* kw is the keyword argument passed, [f |-> "none"] when there is none.
update_bot_status(c, i, st, kw) ==
    IF i \notin DOMAIN c THEN Outcome(c, "None", FALSE)
    ELSE LET b1 == [c[i] EXCEPT !.status = st]
             b2 == IF kw.f = "none" THEN b1 ELSE [b1 EXCEPT ![kw.f] = kw.v]
         IN  Outcome(Put(c, i, b2), "ok", TRUE)

UnregisterKeepsRecord(c, i) ==
    IF i \notin DOMAIN c THEN Outcome(c, "False", FALSE) ELSE Outcome(c, "True", TRUE)
unregister_bot(c, i) ==
    IF i \notin DOMAIN c THEN Outcome(c, "False", FALSE)
    ELSE Outcome(Del(c, i), "True", TRUE)

import_registry(c, entries, merge) ==
    LET imported == LoadBots(entries, EmptyDict)
    IN  IF merge
        THEN Outcome([k \in DOMAIN c \cup DOMAIN imported |->
                         IF k \in DOMAIN imported THEN imported[k] ELSE c[k]], "True", TRUE)
        ELSE Outcome(imported, "True", TRUE)

get_bot_by_id(c, i) == IF i \in DOMAIN c THEN "found" ELSE "None"

\* The cache and the file after an operation with outcome o; rop names the
\* call, rret what it returned or raised, rhttp the API status if any.
Call(op, i, d) == [op |-> op, id |-> i, rec |-> d, ret |-> "none"]
NoDict == BotDict(MISSING, MISSING, MISSING)
Applied(o, call, code) ==
    /\ rcalls' = rcalls + 1
    /\ cache' = o.cache
    /\ saved' = IF o.wrote THEN SaveBots(o.cache) ELSE saved
    /\ rop' = call
    /\ rret' = o.ret
    /\ rhttp' = code
    /\ rprev' = [rop EXCEPT !.ret = rret]

\* POST /bots: status defaults to "created", then register_bot; a ValueError
\* becomes 409.
CreateBot(d) ==
    /\ rcalls < MaxRegOps
    /\ LET bot == [d EXCEPT !.status = Get(d, "status", "created")]
           o == register_bot(cache, bot)
       IN  Applied(o, Call("register_bot", BotId(bot), bot), IF o.ret = "ok" THEN 201 ELSE 409)
    /\ UNCHANGED <<coreVars, extVars, fsVars, tailVars>>

\* GET /bots/{id}: 404 when get_bot_by_id returns None.
GetBot(i) ==
    /\ rcalls < MaxRegOps
    /\ LET r == get_bot_by_id(cache, i)
       IN  Applied(Outcome(cache, r, FALSE), Call("get_bot_by_id", i, NoDict),
                   IF r = "found" THEN 200 ELSE 404)
    /\ UNCHANGED <<coreVars, extVars, fsVars, tailVars>>

\* DELETE /bots/{id}: 404 when unregister_bot returns False.
DeleteBot(i) ==
    /\ rcalls < MaxRegOps
    /\ LET o == unregister_bot(cache, i)
       IN  Applied(o, Call("unregister_bot", i, NoDict), IF o.ret = "True" THEN 200 ELSE 404)
    /\ UNCHANGED <<coreVars, extVars, fsVars, tailVars>>

\* registry.update_bot(bot) called directly.
UpdateBotCall(d) ==
    /\ rcalls < MaxRegOps
    /\ Applied(update_bot(cache, d), Call("update_bot", BotId(d), d), 0)
    /\ UNCHANGED <<coreVars, extVars, fsVars, tailVars>>

\* registry.update_bot_status(bot_id, status, **kwargs) called directly.
UpdateStatusCall(i, st, kw) ==
    /\ rcalls < MaxRegOps
    /\ Applied(update_bot_status(cache, i, st, kw),
               Call("update_bot_status", i, BotDict(IF kw.f = "id" THEN kw.v ELSE MISSING,
                                                    IF kw.f = "name" THEN kw.v ELSE MISSING, st)), 0)
    /\ UNCHANGED <<coreVars, extVars, fsVars, tailVars>>

\* registry.import_registry(filepath, merge) on a backup holding `entries`.
ImportCall(entries, merge) ==
    /\ rcalls < MaxRegOps
    /\ Applied(import_registry(cache, entries, merge),
               Call(IF merge THEN "import_registry:merge" ELSE "import_registry", "", NoDict), 0)
    /\ UNCHANGED <<coreVars, extVars, fsVars, tailVars>>

\* Dicts a caller passes, entries a registry or backup file can hold.
InputDicts ==
    {BotDict(i, "n1", MISSING) : i \in RawIds \cup {MISSING}}
        \cup {BotDict("a", MISSING, "stopped"), BotDict("b", "n2", MISSING)}
FileEntries ==
    {BotDict("a", "n1", "created"), BotDict(" a", "n2", MISSING), BotDict("b", MISSING, "running"),
     BotDict("", "n1", MISSING), BotDict(MISSING, "n1", MISSING), NotADict}
FileContents == {<<>>} \cup {<<e>> : e \in FileEntries} \cup {<<e, g>> : e \in FileEntries, g \in FileEntries}
\* Backup files offered to import_registry.
ImportContents ==
    {<<>>, <<BotDict(" a", "n2", MISSING), NotADict>>,
     <<BotDict("b", MISSING, "running"), BotDict("", "n1", MISSING)>>}
Kwargs == {[f |-> "none", v |-> ""], [f |-> "name", v |-> "n2"], [f |-> "id", v |-> "b"]}

\* SecureRegistry(registry_file): the cache is loaded from the file.
RegyLoaded(entries) ==
    /\ saved = entries
    /\ cache = load_initial_data(entries)
    /\ rop = Call("load", "", NoDict)
    /\ rret = "none"
    /\ rhttp = 0
    /\ rcalls = 0
    /\ rprev = Call("none", "", NoDict)

(* ------------------------------------------------------------------ *)
(* IncidentLog: append and tail over a file of JSON lines              *)
(* ------------------------------------------------------------------ *)
\* A line of the file is the JSON text of a record or a text json.loads
\* rejects (a torn or blank line).
GoodLine(v) == [json |-> TRUE, v |-> v]
BadLine == [json |-> FALSE, v |-> 0]
LogLines == {GoodLine(v) : v \in 1..MaxRecords} \cup {BadLine}

\* collections.deque(f, maxlen=n): every line is pushed and the oldest one
\* dropped once n are held.
RECURSIVE DequeFill(_, _, _)
DequeFill(rest, d, n) ==
    IF rest = <<>> THEN d
    ELSE LET pushed == Append(d, Head(rest))
         IN  DequeFill(Tail(rest), IF Len(pushed) > n THEN Tail(pushed) ELSE pushed, n)

\* for line in lines: try: out.append(json.loads(line)) except: continue
RECURSIVE ParseLines(_, _)
ParseLines(lines, out) ==
    IF lines = <<>> THEN out
    ELSE ParseLines(Tail(lines), IF Head(lines).json THEN Append(out, Head(lines).v) ELSE out)

TailKeepsFirst(exists, lines, limit) ==
    IF ~exists \/ limit <= 0 THEN <<>>
    ELSE ParseLines(SubSeq(lines, 1, Min(limit, Len(lines))), <<>>)
IncidentTail(exists, lines, limit) ==
    IF ~exists THEN <<>>
    ELSE LET limit_n == IF limit > 0 THEN limit ELSE 0
         IN  IF limit_n <= 0 THEN <<>>
             ELSE ParseLines(DequeFill(lines, <<>>, limit_n), <<>>)

\* incidents.tail(limit=limit), as GET /self/incidents calls it.
TailCall(limit) ==
    /\ tcalls < MaxTails
    /\ tcalls' = tcalls + 1
    /\ tlimit' = limit
    /\ tout' = IncidentTail(logExists, logLines, limit)
    /\ UNCHANGED <<logExists, logLines, coreVars, extVars, fsVars, regyVars>>

\* IncidentLog.append: the parent directory and the file are created if
\* needed and one line is written at the end.
LogAppend(v) ==
    /\ Len(logLines) < MaxLines
    /\ logExists' = TRUE
    /\ logLines' = Append(logLines, GoodLine(v))
    /\ UNCHANGED <<tcalls, tlimit, tout, coreVars, extVars, fsVars, regyVars>>

\* The log file as found: absent, or holding `lines`; no tail made yet.
LogFound(exists, lines) ==
    /\ logExists = exists
    /\ logLines = lines
    /\ tcalls = 0
    /\ tlimit = 0
    /\ tout = <<>>

(* ------------------------------------------------------------------ *)
(* Container engine: create, start, stop, remove, and the monitors     *)
(* ------------------------------------------------------------------ *)
CNames == {"c1", "c2"}

NewContainer(n) == [name |-> n, state |-> "created", process |-> 0, monitor_task |-> 0]

Known(n) == containers[n] # 0

\* Container.start, the try block ran through: Popen, state, create_task(_monitor).
StartOk(o) ==
    /\ children' = Append(children, [owner |-> o, st |-> "alive"])
    /\ monitors' = Append(monitors, [owner |-> o, st |-> "active"])
    /\ objs' = [objs EXCEPT ![o].state = "running",
                            ![o].process = Len(children) + 1,
                            ![o].monitor_task = Len(monitors) + 1]

\* Container.start, an exception before or in Popen.
StartFailed(o) ==
    /\ objs' = [objs EXCEPT ![o].state = "failed"]
    /\ UNCHANGED <<children, monitors>>

\* Popen.poll() on a child that has ended collects it.
Polled(p) == [children EXCEPT ![p].st = "reaped"]

\* monitor_task.cancel(): a task that is already done is left as it is.
Cancelled(o) ==
    LET m == objs[o].monitor_task
    IN  IF m # 0 /\ monitors[m].st = "active"
        THEN [monitors EXCEPT ![m].st = "cancelled"]
        ELSE monitors

MonitorPending(o) == objs[o].monitor_task # 0 /\ monitors[objs[o].monitor_task].st = "active"

Exited(o) == [objs EXCEPT ![o].state = "exited"]

RemovedOnlyIfStopped(n, r) == IF r = "true" THEN [containers EXCEPT ![n] = 0] ELSE containers

\* remove_container's innermost finally: del self.containers[name].
Removed(n, r) == [containers EXCEPT ![n] = 0]

\* Container.stop has ended with r (its result, or the exception it let through);
\* stop_container hands r on, remove_container cleans up, deletes and returns True.
Stopped(r) ==
    /\ epc' = "idle"
    /\ estop' = r
    /\ IF eop.op = "remove"
       THEN /\ containers' = Removed(eop.name, r)
            /\ eret' = IF r = "CancelledError" THEN r ELSE "true"
       ELSE /\ containers' = containers
            /\ eret' = r

\* Container.stop after the wait loop: cancel and await the monitor, then EXITED.
StopTail(o) ==
    /\ monitors' = Cancelled(o)
    /\ IF MonitorPending(o)
       THEN /\ epc' = "stop_join"
            /\ UNCHANGED <<objs, containers, eret, estop>>
       ELSE /\ objs' = Exited(o)
            /\ Stopped("true")

\* stop_container / remove_container up to the first suspension of Container.stop.
StopEntered(op, n) ==
    /\ ecnt' = ecnt + 1
    /\ eop' = [op |-> op, name |-> n]
    /\ IF ~Known(n)
       THEN /\ eret' = "ValueError"
            /\ epc' = "idle"
            /\ UNCHANGED <<containers, objs, children, monitors, estop>>
       ELSE LET o == containers[n]
                p == objs[o].process
            IN  IF p = 0
                THEN /\ epc' = "idle"
                     /\ estop' = "true"
                     /\ containers' = IF op = "remove" THEN Removed(n, "true") ELSE containers
                     /\ eret' = "true"
                     /\ UNCHANGED <<objs, children, monitors>>
                ELSE IF children[p].st = "reaped"
                THEN \* os.getpgid raises ProcessLookupError: except Exception, return False
                     /\ epc' = "idle"
                     /\ estop' = "false"
                     /\ containers' = IF op = "remove" THEN Removed(n, "false") ELSE containers
                     /\ eret' = IF op = "remove" THEN "true" ELSE "false"
                     /\ UNCHANGED <<objs, children, monitors>>
                ELSE IF children[p].st = "zombie"
                THEN /\ children' = Polled(p)
                     /\ monitors' = Cancelled(o)
                     /\ IF MonitorPending(o)
                        THEN /\ epc' = "stop_join"
                             /\ UNCHANGED <<objs, containers, eret, estop>>
                        ELSE /\ objs' = Exited(o)
                             /\ epc' = "idle"
                             /\ estop' = "true"
                             /\ containers' = IF op = "remove" THEN Removed(n, "true") ELSE containers
                             /\ eret' = "true"
                ELSE /\ epc' = "stop_wait"
                     /\ UNCHANGED <<containers, objs, children, monitors, eret, estop>>

\* ContainerEngine.create_container
EngCreate(n) ==
    /\ epc = "idle"
    /\ ecnt < MaxEngOps
    /\ ecnt' = ecnt + 1
    /\ eop' = [op |-> "create", name |-> n]
    /\ IF Known(n)
       THEN /\ eret' = "ValueError"
            /\ UNCHANGED <<containers, objs>>
       ELSE /\ objs' = Append(objs, NewContainer(n))
            /\ containers' = [containers EXCEPT ![n] = Len(objs) + 1]
            /\ eret' = "container"
    /\ UNCHANGED <<children, monitors, epc, estop, efaults, eexits, notEngVars>>

\* ContainerEngine.start_container -> Container.start
EngStart(n) ==
    /\ epc = "idle"
    /\ ecnt < MaxEngOps
    /\ ecnt' = ecnt + 1
    /\ eop' = [op |-> "start", name |-> n]
    /\ IF ~Known(n)
       THEN /\ eret' = "ValueError"
            /\ UNCHANGED <<objs, children, monitors, efaults>>
       ELSE \/ /\ StartOk(containers[n])
               /\ eret' = "true"
               /\ UNCHANGED efaults
            \/ /\ efaults > 0
               /\ efaults' = efaults - 1
               /\ StartFailed(containers[n])
               /\ eret' = "false"
    /\ UNCHANGED <<containers, epc, estop, eexits, notEngVars>>

\* ContainerEngine.stop_container
EngStop(n) ==
    /\ epc = "idle"
    /\ ecnt < MaxEngOps
    /\ StopEntered("stop", n)
    /\ UNCHANGED <<efaults, eexits, notEngVars>>

\* ContainerEngine.remove_container
EngRemove(n) ==
    /\ epc = "idle"
    /\ ecnt < MaxEngOps
    /\ StopEntered("remove", n)
    /\ UNCHANGED <<efaults, eexits, notEngVars>>

\* Container.stop: the wait loop sees the signalled child gone (or kills it).
EngStopWaited ==
    /\ epc = "stop_wait"
    /\ children' = Polled(objs[containers[eop.name]].process)
    /\ StopTail(containers[eop.name])
    /\ UNCHANGED <<eop, ecnt, efaults, eexits, notEngVars>>

\* Container.stop: the cancelled monitor has ended.
EngStopJoined ==
    /\ epc = "stop_join"
    /\ objs' = Exited(containers[eop.name])
    /\ Stopped("true")
    /\ UNCHANGED <<children, monitors, eop, ecnt, efaults, eexits, notEngVars>>

\* The task that called the engine is cancelled while Container.stop sleeps:
\* CancelledError is not an Exception, so stop lets it through.
EngCancel ==
    /\ epc = "stop_wait"
    /\ efaults > 0
    /\ efaults' = efaults - 1
    /\ Stopped("CancelledError")
    /\ UNCHANGED <<objs, children, monitors, eop, ecnt, eexits, notEngVars>>

\* A container's child ends on its own.
EngChildExit(k) ==
    /\ children[k].st = "alive"
    /\ eexits > 0
    /\ eexits' = eexits - 1
    /\ children' = [children EXCEPT ![k].st = "zombie"]
    /\ UNCHANGED <<containers, objs, monitors, epc, eop, eret, estop, ecnt, efaults, notEngVars>>

\* Container._monitor: the loop condition finds self.process ended; the task finishes.
EngMonitor(m) ==
    /\ monitors[m].st = "active"
    /\ children[objs[monitors[m].owner].process].st # "alive"
    /\ children' = Polled(objs[monitors[m].owner].process)
    /\ monitors' = [monitors EXCEPT ![m].st = "done"]
    /\ UNCHANGED <<containers, objs, epc, eop, eret, estop, ecnt, efaults, eexits, notEngVars>>

\* A fresh ContainerEngine.
EngIdle ==
    /\ containers = [n \in CNames |-> 0]
    /\ objs = <<>>
    /\ children = <<>>
    /\ monitors = <<>>
    /\ epc = "idle"
    /\ eop = [op |-> "none", name |-> "c1"]
    /\ eret = "none"
    /\ estop = "none"
    /\ ecnt = 0

(* ------------------------------------------------------------------ *)
(* Supervisor life cycle: start(), stop() and the loop task            *)
(* ------------------------------------------------------------------ *)
\* A loop task is at "new" (created, not yet run), "tick" (running tick()),
\* "call" (suspended in stop_bot / run_bot), "sleep", or has ended: "done" when
\* _run_loop returned, "cancelled" when CancelledError left it.
Ended(i) == loopTasks[i].pc \in {"done", "cancelled"}

NeverRunning == FALSE

\* start(): `self._task and not self._task.done()`
LoopRunning == supTask # 0 /\ ~Ended(supTask)

\* Lifecycle calls run between two suspension points of the loop task.
Quiescent == \A i \in DOMAIN loopTasks : loopTasks[i].pc # "tick"

\* task.cancel(): a request the task meets at its next await; none for an ended task.
CancelRequested(i) ==
    IF i # 0 /\ ~Ended(i) THEN [loopTasks EXCEPT ![i].cancel = TRUE] ELSE loopTasks

Uncaught(i) == [loopTasks EXCEPT ![i].pc = "done", ![i].err = TRUE]

\* _run_loop: `except Exception` around tick(), then asyncio.sleep(interval_sec).
Caught(i) == [loopTasks EXCEPT ![i].pc = "sleep", ![i].err = TRUE]

WaitOverAtDeadline(i) == TRUE

\* wait_for hands control back to stop() once the awaited task has ended.
WaitOver(i) == Ended(i)

\* _run_loop from the top of the while: test the flag, enter tick().
Iterate(i) ==
    IF stopEvent
    THEN [loopTasks EXCEPT ![i].pc = "done"]
    ELSE [loopTasks EXCEPT ![i].pc = "tick", ![i].err = FALSE]

\* BotSupervisor.start
LifeStart ==
    /\ Quiescent
    /\ lifeCalls < MaxLifeCalls
    /\ lifeCalls' = lifeCalls + 1
    /\ lifeOp' = "start"
    /\ IF LoopRunning
       THEN /\ lifeRet' = "already_running"
            /\ UNCHANGED <<stopEvent, loopTasks, supTask>>
       ELSE /\ lifeRet' = "created"
            /\ stopEvent' = FALSE
            /\ loopTasks' = Append(loopTasks, [pc |-> "new", cancel |-> FALSE, err |-> FALSE])
            /\ supTask' = Len(loopTasks) + 1
    /\ UNCHANGED <<stopPc, stopWaits, tickErrs, notLoopVars>>

\* BotSupervisor.stop up to wait_for
LifeStop ==
    /\ Quiescent
    /\ stopPc = "idle"
    /\ lifeCalls < MaxLifeCalls
    /\ lifeCalls' = lifeCalls + 1
    /\ lifeOp' = "stop"
    /\ stopEvent' = TRUE
    /\ IF supTask = 0
       THEN /\ lifeRet' = "returned"
            /\ UNCHANGED <<stopPc, stopWaits>>
       ELSE /\ lifeRet' = "pending"
            /\ stopPc' = "waiting"
            /\ stopWaits' = supTask
    /\ UNCHANGED <<loopTasks, supTask, tickErrs, notLoopVars>>

\* wait_for(..., timeout=5) expires: it cancels the task and waits for its end.
LifeDeadline ==
    /\ Quiescent
    /\ stopPc = "waiting"
    /\ ~Ended(stopWaits)
    /\ loopTasks' = CancelRequested(stopWaits)
    /\ stopPc' = "timed_out"
    /\ UNCHANGED <<stopEvent, supTask, stopWaits, lifeOp, lifeRet, lifeCalls, tickErrs, notLoopVars>>

\* stop() resumes: the task's result, or TimeoutError and self._task.cancel().
LifeStopResume ==
    /\ Quiescent
    /\ stopPc \in {"waiting", "timed_out"}
    /\ WaitOver(stopWaits)
    /\ stopPc' = "idle"
    /\ IF loopTasks[stopWaits].pc = "done"
       THEN /\ lifeRet' = IF lifeOp = "stop" THEN "returned" ELSE lifeRet
            /\ UNCHANGED loopTasks
       ELSE IF stopPc = "timed_out"
       THEN /\ lifeRet' = IF lifeOp = "stop" THEN "returned" ELSE lifeRet
            /\ loopTasks' = CancelRequested(supTask)
       ELSE /\ lifeRet' = IF lifeOp = "stop" THEN "CancelledError" ELSE lifeRet
            /\ UNCHANGED loopTasks
    /\ UNCHANGED <<stopEvent, supTask, stopWaits, lifeOp, lifeCalls, tickErrs, notLoopVars>>

\* The loop task runs for the first time; a cancelled one never runs.
LoopFirstRun(i) ==
    /\ loopTasks[i].pc = "new"
    /\ loopTasks' = IF loopTasks[i].cancel
                    THEN [loopTasks EXCEPT ![i].pc = "cancelled"]
                    ELSE Iterate(i)
    /\ UNCHANGED <<stopEvent, supTask, stopPc, stopWaits, lifeOp, lifeRet, lifeCalls, tickErrs,
                   notLoopVars>>

\* asyncio.sleep(interval_sec) ends, or raises CancelledError.
LoopWake(i) ==
    /\ loopTasks[i].pc = "sleep"
    /\ loopTasks' = IF loopTasks[i].cancel
                    THEN [loopTasks EXCEPT ![i].pc = "cancelled"]
                    ELSE Iterate(i)
    /\ UNCHANGED <<stopEvent, supTask, stopPc, stopWaits, lifeOp, lifeRet, lifeCalls, tickErrs,
                   notLoopVars>>

\* tick() -> _handle_unhealthy awaits executor.stop_bot or run_bot.
LoopCall(i) ==
    /\ loopTasks[i].pc = "tick"
    /\ loopTasks' = [loopTasks EXCEPT ![i].pc = "call"]
    /\ UNCHANGED <<stopEvent, supTask, stopPc, stopWaits, lifeOp, lifeRet, lifeCalls, tickErrs,
                   notLoopVars>>

\* The executor call ends.  A pending cancellation is raised inside it: it leaves
\* the task, unless it lands in Container.stop's `except asyncio.CancelledError: pass`.
LoopCallDone(i) ==
    /\ loopTasks[i].pc = "call"
    /\ IF loopTasks[i].cancel
       THEN \/ loopTasks' = [loopTasks EXCEPT ![i].pc = "cancelled"]
            \/ loopTasks' = [loopTasks EXCEPT ![i].pc = "tick", ![i].cancel = FALSE]
       ELSE loopTasks' = [loopTasks EXCEPT ![i].pc = "tick"]
    /\ UNCHANGED <<stopEvent, supTask, stopPc, stopWaits, lifeOp, lifeRet, lifeCalls, tickErrs,
                   notLoopVars>>

\* tick() returns.
LoopTickEnd(i) ==
    /\ loopTasks[i].pc = "tick"
    /\ loopTasks' = [loopTasks EXCEPT ![i].pc = "sleep"]
    /\ UNCHANGED <<stopEvent, supTask, stopPc, stopWaits, lifeOp, lifeRet, lifeCalls, tickErrs,
                   notLoopVars>>

\* tick() raises an Exception.
LoopTickRaise(i) ==
    /\ loopTasks[i].pc = "tick"
    /\ tickErrs > 0
    /\ tickErrs' = tickErrs - 1
    /\ loopTasks' = Caught(i)
    /\ UNCHANGED <<stopEvent, supTask, stopPc, stopWaits, lifeOp, lifeRet, lifeCalls, notLoopVars>>

\* BotSupervisor.__init__
LoopIdle ==
    /\ stopEvent = FALSE
    /\ loopTasks = <<>>
    /\ supTask = 0
    /\ stopPc = "idle"
    /\ stopWaits = 0
    /\ lifeOp = "none"
    /\ lifeRet = "none"
    /\ lifeCalls = 0

(* ------------------------------------------------------------------ *)
(* Patch proposals: PatchStore and the approve / reject / apply gates  *)
(* ------------------------------------------------------------------ *)
\* The endpoints of routers/self.py are plain `def` functions: the server runs each
\* request on a thread of its pool, so two requests interleave at every file access.
Workers == {"w1", "w2"}
PIds == {"p1", "p2"}
NoProposal == [status |-> "none", applyable |-> FALSE]
WorkerIdle == [pc |-> "idle", op |-> "none", id |-> "p1", p |-> NoProposal,
               data |-> [q \in PIds |-> NoProposal], ret |-> "none"]

\* approve_proposal / reject_proposal / apply_approved_proposal on the proposal that
\* store.get returned: the exception raised, or "ok".
Gate(op, p) ==
    IF p.status = "none" THEN "KeyError"
    ELSE IF op = "approve"
    THEN IF p.status # "proposed" THEN "ValueError" ELSE "ok"
    ELSE IF op = "reject"
    THEN IF p.status \in {"applied", "rejected"} THEN "ValueError" ELSE "ok"
    ELSE IF p.status # "approved" THEN "ValueError"
    ELSE IF ~p.applyable THEN "PatchApplyError"
    ELSE "ok"

NewStatus(op) ==
    IF op = "approve" THEN "approved" ELSE IF op = "reject" THEN "rejected" ELSE "applied"

\* propose endpoint, store.add up to its load: _load(), append
PatchPropose(w, q, a) ==
    /\ workers[w].pc = "idle"
    /\ pcalls < MaxPatchOps
    /\ patchFile[q].status = "none"
    /\ \A v \in Workers : ~(workers[v].pc # "idle" /\ workers[v].op = "propose" /\ workers[v].id = q)
    /\ pcalls' = pcalls + 1
    /\ workers' = [workers EXCEPT ![w] =
                      [pc |-> "save", op |-> "propose", id |-> q,
                       p |-> [status |-> "proposed", applyable |-> a],
                       data |-> [patchFile EXCEPT ![q] = [status |-> "proposed", applyable |-> a]],
                       ret |-> "none"]]
    /\ UNCHANGED <<patchFile, pfaults, notPatchVars>>

\* approve / reject / apply endpoint up to store.update: store.get, the checks,
\* the new status on the local copy
PatchCall(w, op, q) ==
    /\ workers[w].pc = "idle"
    /\ pcalls < MaxPatchOps
    /\ pcalls' = pcalls + 1
    /\ workers' = [workers EXCEPT ![w] =
                      IF Gate(op, patchFile[q]) = "ok"
                      THEN [pc |-> "update", op |-> op, id |-> q,
                            p |-> [patchFile[q] EXCEPT !.status = NewStatus(op)],
                            data |-> workers[w].data, ret |-> "none"]
                      ELSE [pc |-> "idle", op |-> op, id |-> q, p |-> patchFile[q],
                            data |-> workers[w].data, ret |-> Gate(op, patchFile[q])]]
    /\ UNCHANGED <<patchFile, pfaults, notPatchVars>>

\* store.update: _load(), then replace the entry (or add it when it is not there)
PatchLoad(w) ==
    /\ workers[w].pc = "update"
    /\ workers' = [workers EXCEPT ![w].pc = "save",
                                  ![w].data = [patchFile EXCEPT ![workers[w].id] = workers[w].p]]
    /\ UNCHANGED <<patchFile, pcalls, pfaults, notPatchVars>>

\* store._save: atomic_save_json installs the whole file, or raises and leaves it
PatchSave(w) ==
    /\ workers[w].pc = "save"
    /\ \/ /\ patchFile' = workers[w].data
          /\ workers' = [workers EXCEPT ![w].pc = "idle", ![w].ret = "ok"]
          /\ UNCHANGED pfaults
       \/ /\ pfaults > 0
          /\ pfaults' = pfaults - 1
          /\ workers' = [workers EXCEPT ![w].pc = "idle", ![w].ret = "IOError"]
          /\ UNCHANGED patchFile
    /\ UNCHANGED <<pcalls, notPatchVars>>

\* No request in progress; the file holds the given proposals.
PatchIdle(file) ==
    /\ patchFile = file
    /\ workers = [w \in Workers |-> WorkerIdle]
    /\ pcalls = 0

(* ------------------------------------------------------------------ *)
(* Specifications                                                      *)
(* ------------------------------------------------------------------ *)
InitCommon ==
    /\ regFile = reg
    /\ rp = EmptyDict
    /\ rc = {}
    /\ cont = EmptyDict
    /\ pc = [t \in Tasks |-> IF t = "sup" THEN "sleep" ELSE "idle"]
    /\ ret = [t \in Tasks |-> "idle"]
    /\ res = [t \in Tasks |-> "none"]
    /\ tb = [t \in Tasks |-> "b1"]
    /\ loc = [t \in Tasks |-> NoLoc]
    /\ fb = [t \in Tasks |-> FALSE]
    /\ sp = [t \in Tasks |-> 0]
    /\ ecalls = [t \in Tasks |-> <<>>]
    /\ cur = "none"
    /\ snap = EmptyDict
    /\ now = 0
    /\ todo = <<>>
    /\ hbot = NoLoc
    /\ abot = NoLoc
    /\ sleepUntil = 0
    /\ failures = [b \in Bots |-> 0]
    /\ lastAttempt = [b \in Bots |-> -1]
    /\ nextAllowed = [b \in Bots |-> -1]
    /\ incidents = <<>>
    /\ http = "none"
    /\ clock = 0
    /\ obs = [b \in Bots |-> 0]
    /\ qhold = [b \in Bots |-> FALSE]
    /\ healAt = [b \in Bots |-> -1]

\* A record loaded as running: its process_id names a child of the earlier
\* server process, which is gone.
LoadedRunningRec(dt, pid) == [NewRec(ST_RUNNING, dt) EXCEPT !.pid = pid]

\* The registry file at startup holds one bot, in either mode, created or
\* recorded as running by an earlier server process.
InitOneBot ==
    /\ \E dt \in {DT_LOCAL, DT_CONTAINER} :
          \/ reg = [b \in {"b1"} |-> NewRec(ST_CREATED, dt)] /\ procs = <<>>
          \/ reg = [b \in {"b1"} |-> LoadedRunningRec(dt, 1)] /\ procs = <<"reaped">>
    /\ \E ok \in BOOLEAN : scriptOk = [b \in Bots |-> IF b = "b1" THEN ok ELSE TRUE]
    /\ InitCommon

ExecStep(t) ==
    \/ RunEntry(t)
    \/ RunCStart(t)
    \/ RunLSpawn(t)
    \/ StopEntry(t)
    \/ StopCWait(t)
    \/ StopCRetry(t)
    \/ StopLWait(t)

SupStep ==
    \/ TickBegin
    \/ TickExamine
    \/ TickEnd
    \/ Handle
    \/ HealRun
    \/ HealAfterRun
    \/ HealAfterFallback

EnvStep ==
    \/ Advance
    \/ \E p \in DOMAIN procs : ChildExit(p)
    \/ \E t \in Tasks : TermExit(t)
    \/ \E b \in Bots : MonitorExit(b)

ApiStep ==
    \/ \E b \in Bots : ApiStart(b)
    \/ ApiStartDone
    \/ \E b \in Bots : ApiStop(b)
    \/ ApiStopDone

\* The supervision specifications leave the file-level components at rest.
FsIdleInit == FsIdle(File(Ser(1))) /\ fsFaults = 0
RegyIdleInit == RegyLoaded(<<>>)
TailIdleInit == LogFound(FALSE, <<>>)
EngIdleInit == EngIdle /\ efaults = 0 /\ eexits = 0
LoopIdleInit == LoopIdle /\ tickErrs = 0
PatchIdleInit == PatchIdle([q \in PIds |-> NoProposal]) /\ pfaults = 0
MonIdleInit == usage = [b \in Bots |-> "normal"]
ExtIdleInit == EngIdleInit /\ LoopIdleInit /\ PatchIdleInit /\ MonIdleInit
OldLibIdle == FsIdleInit /\ RegyIdleInit /\ TailIdleInit
InitLibIdle == OldLibIdle /\ ExtIdleInit

\* The component specifications leave the server without bots and at rest.
InitCoreIdle ==
    /\ reg = EmptyDict
    /\ procs = <<>>
    /\ scriptOk = [b \in Bots |-> TRUE]
    /\ InitCommon
    /\ horizon = 0
    /\ faultsLeft = 0
    /\ crashesLeft = 0
    /\ apiLeft = 0

(* Executor, API and supervisor over a short horizon, with faults. *)
Init ==
    /\ InitOneBot
    /\ InitLibIdle
    /\ horizon = ExecMaxTime
    /\ faultsLeft = MaxFaults
    /\ crashesLeft = ExecMaxCrashes
    /\ apiLeft = MaxApiCalls

Next ==
    \/ \E t \in Tasks : ExecStep(t)
    \/ SupStep
    \/ ApiStep
    \/ EnvStep

Spec == Init /\ [][Next]_vars

(* One bot under the supervisor until quarantine: crashes and an operator's *)
(* restart, no injected faults.                                            *)
InitHeal ==
    /\ InitOneBot
    /\ InitLibIdle
    /\ horizon = MaxTime
    /\ faultsLeft = 0
    /\ crashesLeft = MaxCrashes
    /\ apiLeft = HealApiCalls

SpecHeal == InitHeal /\ [][Next]_vars

(* Two local bots recorded as running, supervisor only. *)
InitFleet ==
    /\ reg = [b \in Bots |-> LoadedRunningRec(DT_LOCAL, IF b = "b1" THEN 1 ELSE 2)]
    /\ procs = <<"reaped", "reaped">>
    /\ scriptOk = [b \in Bots |-> TRUE]
    /\ InitCommon
    /\ InitLibIdle
    /\ horizon = FleetMaxTime
    /\ faultsLeft = 0
    /\ crashesLeft = MaxCrashes
    /\ apiLeft = 0

NextFleet ==
    \/ RunEntry("sup")
    \/ RunLSpawn("sup")
    \/ StopEntry("sup")
    \/ StopLWait("sup")
    \/ TickBegin
    \/ TickExamine
    \/ TickEnd
    \/ Handle
    \/ HealRun
    \/ HealAfterRun
    \/ Advance
    \/ \E p \in DOMAIN procs : ChildExit(p)

SpecFleet == InitFleet /\ [][NextFleet]_vars

(* Two local bots under the supervisor while an operator stops the second. *)
InitRace ==
    /\ reg = [b \in Bots |-> LoadedRunningRec(DT_LOCAL, IF b = "b1" THEN 1 ELSE 2)]
    /\ procs = <<"reaped", "reaped">>
    /\ scriptOk = [b \in Bots |-> TRUE]
    /\ InitCommon
    /\ InitLibIdle
    /\ horizon = RaceMaxTime
    /\ faultsLeft = 0
    /\ crashesLeft = RaceMaxCrashes
    /\ apiLeft = 1

NextRace ==
    \/ \E t \in Tasks : RunEntry(t)
    \/ \E t \in Tasks : RunLSpawn(t)
    \/ \E t \in Tasks : StopEntry(t)
    \/ \E t \in Tasks : StopLWait(t)
    \/ \E t \in Tasks : TermExit(t)
    \/ TickBegin
    \/ TickExamine
    \/ TickEnd
    \/ Handle
    \/ HealRun
    \/ HealAfterRun
    \/ Advance
    \/ \E p \in DOMAIN procs : ChildExit(p)
    \/ ApiStop("b2")
    \/ ApiStopDone

SpecRace == InitRace /\ [][NextRace]_vars

(* Saves of the registry file, with I/O errors, against concurrent loads. *)
InitSave ==
    /\ InitCoreIdle
    /\ ExtIdleInit
    /\ \E c \in {Absent, File(Ser(1))} : FsIdle(c)
    /\ fsFaults = MaxSaveFaults
    /\ RegyIdleInit
    /\ TailIdleInit

NextSave ==
    \/ \E d \in Data : SaveCall(d)
    \/ SaveCreate
    \/ SaveDump
    \/ SaveClose
    \/ SaveFsync
    \/ SaveReplace
    \/ SaveExcept
    \/ LoadOpen
    \/ LoadRead

SpecSave == InitSave /\ [][NextSave]_vars

(* The registry loaded from a file, under calls of its operations. *)
InitRegy ==
    /\ InitCoreIdle
    /\ ExtIdleInit
    /\ FsIdleInit
    /\ TailIdleInit
    /\ \E entries \in FileContents : RegyLoaded(entries)

NextRegy ==
    \/ \E d \in InputDicts : CreateBot(d)
    \/ \E i \in LookupIds : GetBot(i)
    \/ \E i \in LookupIds : DeleteBot(i)
    \/ \E d \in InputDicts : UpdateBotCall(d)
    \/ \E i \in LookupIds, kw \in Kwargs : UpdateStatusCall(i, "running", kw)
    \/ \E entries \in ImportContents, merge \in BOOLEAN : ImportCall(entries, merge)

SpecRegy == InitRegy /\ [][NextRegy]_vars

(* Tails of an incident log that is being appended to. *)
InitTail ==
    /\ InitCoreIdle
    /\ ExtIdleInit
    /\ FsIdleInit
    /\ RegyIdleInit
    /\ \/ LogFound(FALSE, <<>>)
       \/ \E n \in 0..MaxLines : \E lines \in [1..n -> LogLines] : LogFound(TRUE, lines)

NextTail ==
    \/ \E limit \in -1..MaxLimit : TailCall(limit)
    \/ \E v \in 1..MaxRecords : LogAppend(v)

SpecTail == InitTail /\ [][NextTail]_vars

(* The container engine under calls of its operations, with start errors, *)
(* children that end on their own, and a cancelled caller.                *)
InitEng ==
    /\ InitCoreIdle
    /\ OldLibIdle
    /\ LoopIdleInit
    /\ PatchIdleInit
    /\ MonIdleInit
    /\ EngIdle
    /\ efaults = MaxEngFaults
    /\ eexits = MaxEngExits

NextEng ==
    \/ \E n \in CNames : EngCreate(n)
    \/ \E n \in CNames : EngStart(n)
    \/ \E n \in CNames : EngStop(n)
    \/ \E n \in CNames : EngRemove(n)
    \/ EngStopWaited
    \/ EngStopJoined
    \/ EngCancel
    \/ \E k \in DOMAIN children : EngChildExit(k)
    \/ \E m \in DOMAIN monitors : EngMonitor(m)

SpecEng == InitEng /\ [][NextEng]_vars

(* One BotSupervisor under start() and stop() calls, with ticks that call the *)
(* executor, ticks that raise, and the 5 s deadline of stop().                *)
InitLoop ==
    /\ InitCoreIdle
    /\ OldLibIdle
    /\ EngIdleInit
    /\ PatchIdleInit
    /\ MonIdleInit
    /\ LoopIdle
    /\ tickErrs = MaxTickErrs

NextLoop ==
    \/ LifeStart
    \/ LifeStop
    \/ LifeDeadline
    \/ LifeStopResume
    \/ \E i \in DOMAIN loopTasks : LoopFirstRun(i)
    \/ \E i \in DOMAIN loopTasks : LoopWake(i)
    \/ \E i \in DOMAIN loopTasks : LoopCall(i)
    \/ \E i \in DOMAIN loopTasks : LoopCallDone(i)
    \/ \E i \in DOMAIN loopTasks : LoopTickEnd(i)
    \/ \E i \in DOMAIN loopTasks : LoopTickRaise(i)

SpecLoop == InitLoop /\ [][NextLoop]_vars

\* The event loop runs every task that is ready: a sleep ends, a first run happens.
SpecLoopLive ==
    /\ SpecLoop
    /\ WF_vars(\E i \in DOMAIN loopTasks : LoopFirstRun(i))
    /\ WF_vars(\E i \in DOMAIN loopTasks : LoopWake(i))

(* Patch requests served by two threads over one proposals file. *)
InitPatch ==
    /\ InitCoreIdle
    /\ OldLibIdle
    /\ EngIdleInit
    /\ LoopIdleInit
    /\ MonIdleInit
    /\ PatchIdle([q \in PIds |-> NoProposal])
    /\ pfaults = MaxPatchFaults

NextPatch ==
    \/ \E w \in Workers, q \in PIds, a \in BOOLEAN : PatchPropose(w, q, a)
    \/ \E w \in Workers, op \in {"approve", "reject", "apply"}, q \in PIds : PatchCall(w, op, q)
    \/ \E w \in Workers : PatchLoad(w)
    \/ \E w \in Workers : PatchSave(w)

SpecPatch == InitPatch /\ [][NextPatch]_vars

(* ------------------------------------------------------------------ *)
(* Properties                                                          *)
(* ------------------------------------------------------------------ *)
\* Number of incidents of `kind` recorded for bot b in log.
KindCount(log, b, kind) == Cardinality({i \in DOMAIN log : log[i] = Incident(b, kind)})

\* The step is a call of _handle_unhealthy for b that passes the backoff gate.
PassesGate(b) == failures'[b] = failures[b] + 1

\* C1 (as stated): the (max_failures+1)-th consecutive unhealthy observation
\* that _handle_unhealthy handles for a bot leaves its status ERROR and
\* appends its 'quarantined' incident.
C1_ObservationsQuarantine ==
    [][\A b \in Bots :
         (obs'[b] = obs[b] + 1 /\ obs'[b] >= MaxFailures + 1)
         => /\ b \in DOMAIN reg' /\ reg'[b].status = ST_ERROR
            /\ incidents' = Append(incidents, Incident(b, "quarantined"))]_vars

\* C1 (amended): an unhealthy observation that passes the backoff gate and
\* raises the bot's failure count above max_failures leaves the status ERROR
\* and appends exactly one 'quarantined' incident; while the status stays
\* ERROR after a quarantine no further 'quarantined' incident is appended
\* for the bot.
C1_GatePassingQuarantine ==
    [][\A b \in DOMAIN reg :
         /\ (PassesGate(b) /\ failures'[b] > MaxFailures)
            => /\ reg'[b].status = ST_ERROR
               /\ incidents' = Append(incidents, Incident(b, "quarantined"))
         /\ (PassesGate(b) /\ failures'[b] <= MaxFailures)
            => KindCount(incidents', b, "quarantined") = KindCount(incidents, b, "quarantined")
         /\ (qhold[b] /\ qhold'[b])
            => KindCount(incidents', b, "quarantined") = KindCount(incidents, b, "quarantined")]_vars

\* C1 witness: the bot was quarantined at its (max_failures+1)-th gate-passing
\* observation and is still held in ERROR.
C1_Witness ==
    /\ failures["b1"] = MaxFailures + 1
    /\ qhold["b1"]
    /\ reg["b1"].status = ST_ERROR
    /\ KindCount(incidents, "b1", "quarantined") = 1

\* C2: a heal attempt for a bot begins no sooner than min(60, 2^failures)
\* seconds after the bot's previous heal attempt began, failures being the
\* count left by that previous attempt.
C2_BackoffBetweenAttempts ==
    [][\A b \in Bots :
         (PassesGate(b) /\ pc'["sup"] = "stop_entry" /\ healAt[b] # -1)
         => clock - healAt[b] >= Backoff(failures[b])]_vars

\* C3: the heal attempts made for a bot ('unhealthy' incident, then stop_bot
\* and run_bot) never number more than max_failures.
C3_BoundedHeals ==
    \A b \in Bots : KindCount(incidents, b, "unhealthy") <= MaxFailures

\* C3 witness: the bot has used all max_failures heal attempts and its next
\* gate-passing unhealthy observation quarantined it instead.
C3_Witness ==
    /\ KindCount(incidents, "b1", "unhealthy") = MaxFailures
    /\ KindCount(incidents, "b1", "quarantined") >= 1

\* run_bot / stop_bot has just handed its result to the caller, which holds the loop.
RunReturned(t) == cur = t /\ pc[t] \in {"api_start_done", "h_after1", "h_after2"}
StopReturned(t) == cur = t /\ pc[t] \in {"api_stop_done", "h_run1"}

\* The bot argument the caller passed to run_bot.
CallerBot(t) == IF t = "sup" THEN hbot ELSE abot

\* The bot's child is gone: the tracked container's child, else the recorded pid.
ChildGone(b) ==
    IF b \in rc /\ b \in DOMAIN cont
    THEN cont[b].proc # 0 /\ procs[cont[b].proc] # "alive"
    ELSE reg[b].pid # 0 /\ procs[reg[b].pid] # "alive"

\* C4: when tick examines a bot whose registry status is RUNNING and whose
\* child is no longer alive, it goes on to _handle_unhealthy for that bot.
C4_DeadChildHandled ==
    [][(/\ pc["sup"] = "tick" /\ cur = "sup" /\ todo # <<>>
        /\ Head(todo) \in DOMAIN reg
        /\ reg[Head(todo)].status = ST_RUNNING
        /\ snap[Head(todo)] = reg[Head(todo)]
        /\ ChildGone(Head(todo)))
       => (pc'["sup"] = "handle" /\ tb'["sup"] = Head(todo))]_vars

\* C5: at the moment stop_bot returns true its bot is in neither
\* running_processes nor running_containers.
C5_StoppedMeansUntracked ==
    \A t \in Tasks :
        (StopReturned(t) /\ res[t] = "true")
        => (tb[t] \notin DOMAIN rp /\ tb[t] \notin rc)

\* C6: stop_bot entered for a bot in neither tracking map returns false in
\* that step and leaves the registry cache and file as they were.
C6_UntrackedStopNoEffect ==
    [][\A t \in Tasks :
         (pc[t] = "stop_entry" /\ cur = t /\ tb[t] \notin rc /\ tb[t] \notin DOMAIN rp)
         => /\ pc'[t] = ret[t] /\ res'[t] = "false"
            /\ reg' = reg /\ regFile' = regFile]_vars

\* C6 witness: the stop endpoint's stop_bot returned false for a bot that was
\* never started; the record is still CREATED with no lifecycle entry.
C6_Witness ==
    /\ pc["api"] = "api_stop_done" /\ cur = "api"
    /\ res["api"] = "false"
    /\ tb["api"] = "b1" /\ "b1" \notin rc /\ "b1" \notin DOMAIN rp
    /\ reg["b1"] = NewRec(ST_CREATED, reg["b1"].dtype)

\* C7: when run_bot returns true after its container path failed, the bot is
\* in running_processes and not in running_containers, its status is RUNNING,
\* error_count grew by at least 1 and last_error names the container failure.
C7_FallbackOutcome ==
    \A t \in Tasks :
        (RunReturned(t) /\ fb[t] /\ res[t] = "true")
        => /\ tb[t] \in DOMAIN rp
           /\ tb[t] \notin rc
           /\ reg[tb[t]].status = ST_RUNNING
           /\ reg[tb[t]].errs >= CallerBot(t).errs + 1
           /\ reg[tb[t]].lerr = "container_failed_fallback"

\* The current run_bot gave up on start_container at the timeout.
StartTimedOut(t) == ecalls[t] # <<>> /\ Head(ecalls[t]) = "timeout"

\* C8: after a start timeout run_bot has attempted stop_container then
\* remove_container and has taken the ContainerError fallback; with the local
\* spawn done it returns true with the bot in running_processes and absent
\* from running_containers.
C8_TimeoutOutcome ==
    \A t \in Tasks :
        (RunReturned(t) /\ StartTimedOut(t))
        => /\ ecalls[t] = <<"timeout", "stop_container", "remove_container">>
           /\ fb[t]
           /\ res[t] = "true"
              => (tb[t] \in DOMAIN rp /\ tb[t] \notin rc)

\* C9: when run_bot raises out of a local fallback that followed a container
\* failure, the record is ERROR with last_error and error_count updated, it is
\* persisted, and the exception is the local failure.
C9_BothFailedOutcome ==
    \A t \in Tasks :
        (RunReturned(t) /\ fb[t] /\ res[t] # "true")
        => /\ res[t] \in SpawnErrors
           /\ reg[tb[t]].status = ST_ERROR
           /\ reg[tb[t]].errs > CallerBot(t).errs
           /\ reg[tb[t]].lerr # CallerBot(t).lerr
           /\ regFile = reg

\* C10: run_bot entered for a registered bot whose script is missing raises
\* FileNotFoundError in that step, writes FAILED as the record's status
\* without DEPLOYING or RUNNING in between, spawns nothing and tracks
\* nothing; the start endpoint answers a FileNotFoundError with 400.
C10_MissingScript ==
    [][/\ \A t \in Tasks :
            (pc[t] = "run_entry" /\ cur = t /\ tb[t] \in DOMAIN reg /\ ~scriptOk[tb[t]])
            => /\ pc'[t] = ret[t] /\ res'[t] = "FileNotFoundError"
               /\ reg'[tb[t]].status = ST_FAILED
               /\ regFile' = reg'
               /\ procs' = procs /\ rp' = rp /\ rc' = rc /\ cont' = cont
       /\ (pc["api"] = "api_start_done" /\ cur = "api" /\ res["api"] = "FileNotFoundError")
            => http' = "400"]_vars

\* C10 witness: the start endpoint answered 400 for the bot with the missing
\* script, whose record is FAILED and which has no child and no tracking.
C10_Witness ==
    /\ http = "400"
    /\ ~scriptOk["b1"]
    /\ reg["b1"].status = ST_FAILED
    /\ procs = <<>> /\ rp = EmptyDict /\ rc = {}

(* ------------------------------------------------------------------ *)
(* Properties of atomic_save_json and load_json                        *)
(* ------------------------------------------------------------------ *)
\* C11: a load that runs at any step of a concurrent atomic_save_json reads
\* either the complete content the file had before the save or the complete
\* new content, never an empty or truncated file.
C11_ReaderSeesOldOrNew ==
    (rn > 0 /\ rpc = "idle") =>
        /\ rseen \in rcand
        /\ rseen.exists => IsComplete(rseen.bytes)

\* A load that overlapped a save of new content has read the old content,
\* and the temp file of that save is still partly written.
C11_Witness ==
    /\ rn > 0
    /\ rpc = "idle"
    /\ File(Ser(2)) \in rcand
    /\ rseen = File(Ser(1))
    /\ spc = "dump"
    /\ sdata = 2
    /\ TmpName(scount) \in DOMAIN fsDir
    /\ Len(fsData[fsDir[TmpName(scount)]]) = 1

\* C12: when atomic_save_json fails at a step after the temp file was created
\* (serialising the value, fsync or rename), the temp file is deleted before
\* the error is raised and the target keeps its previous content.  Calls
\* whose os.remove itself failed are left out.
C12_NoTempFileLeft ==
    (spc = "returned" /\ sfailAt \in {"dump", "fsync", "replace"} /\ cleanup # "failed") =>
        /\ TmpName(scount) \notin DOMAIN fsDir
        /\ Content(TargetName) = spre

\* C13, as stated: atomic_save_json raises only when both the write and the
\* cleanup of the temp file failed, and returns normally when the write
\* failed and the temp file was removed.
C13_RaisesOnlyOnDoubleFailure ==
    spc = "returned" => (sres = "IOError" <=> (sfailAt # "none" /\ cleanup = "failed"))

\* C13, amended: atomic_save_json raises IOError exactly when one of its
\* steps failed, whatever the cleanup did, and then the target keeps its
\* previous content.
C13_RaisesOnEveryFailure ==
    spc = "returned" =>
        /\ sres = "IOError" <=> sfailAt # "none"
        /\ sres = "IOError" => Content(TargetName) = spre
        /\ sres = "ok" => Content(TargetName) = File(Ser(sdata))

\* A save whose fsync failed removed its temp file and raised.
C13_Witness ==
    /\ spc = "returned"
    /\ sfailAt = "fsync"
    /\ cleanup = "ok"
    /\ sres = "IOError"
    /\ TmpName(scount) \notin DOMAIN fsDir

(* ------------------------------------------------------------------ *)
(* Properties of the registry operations                               *)
(* ------------------------------------------------------------------ *)
\* The id a held record carries is empty: no id key, None, or blank text.
EmptyId(d) == d.id \in {MISSING, NoneVal} \/ Strip(d.id) = ""

\* C14: after any sequence of register_bot, update_bot, update_bot_status,
\* unregister_bot, import_registry and the initial load, every record the
\* registry holds has a non-empty id and no two records have the same id.
C14_IdsUniqueNonEmpty ==
    /\ \A k \in DOMAIN cache : ~EmptyId(cache[k])
    /\ \A k1, k2 \in DOMAIN cache : k1 # k2 => cache[k1].id # cache[k2].id

\* The last step was a call of the registry operation `op`.
Called(op) == rop'.op = op /\ rcalls' # rcalls

C16_UnregisterIdempotent ==
    [][/\ Called("unregister_bot") =>
             /\ rop'.id \in DOMAIN cache =>
                    /\ rret' = "True" /\ rhttp' = 200
                    /\ cache' = Del(cache, rop'.id)
             /\ rop'.id \notin DOMAIN cache =>
                    /\ rret' = "False" /\ rhttp' = 404
                    /\ cache' = cache /\ saved' = saved
             /\ (rop.op = "unregister_bot" /\ rret = "True" /\ rop.id = rop'.id) =>
                    rret' = "False"
       /\ (Called("get_bot_by_id") /\ rop.op = "unregister_bot" /\ rret = "True"
              /\ rop.id = rop'.id) =>
             rret' = "None" /\ rhttp' = 404]_vars

\* A bot was removed and the unregister_bot that followed returned false.
C16_Witness ==
    /\ rprev.op = "unregister_bot" /\ rprev.ret = "True"
    /\ rop.op = "unregister_bot" /\ rop.id = rprev.id
    /\ rret = "False"
    /\ rop.id \notin DOMAIN cache

\* C17: update_bot(record) with an id that is not registered fails and
\* leaves the registry unchanged; with a registered id it replaces the whole
\* stored record by the given one and changes no other bot's record.
C17_UpdateReplacesOneRecord ==
    [][Called("update_bot") =>
          LET d == rop'.rec
              k == BotId(d)
          IN  /\ k \notin DOMAIN cache =>
                     /\ rret' \in {"ValueError:empty", "ValueError:notfound"}
                     /\ cache' = cache /\ saved' = saved
              /\ k \in DOMAIN cache =>
                     /\ rret' = "ok"
                     /\ DOMAIN cache' = DOMAIN cache
                     /\ cache'[k] = d
                     /\ \A j \in DOMAIN cache \ {k} : cache'[j] = cache[j]]_vars

\* A bot registered with a name was updated by a record without one, and
\* the stored record has no name; another bot is registered too.
C17_Witness ==
    /\ rprev.op = "register_bot" /\ rprev.ret = "ok" /\ rprev.rec.name = "n1"
    /\ rop.op = "update_bot" /\ rret = "ok" /\ rop.id = rprev.id
    /\ rop.rec.name = MISSING
    /\ cache[rop.id].name = MISSING
    /\ Cardinality(DOMAIN cache) > 1

(* ------------------------------------------------------------------ *)
(* Properties of the incident log                                      *)
(* ------------------------------------------------------------------ *)
\* The last n elements of a sequence, all of them when it has fewer.
LastN(seq, n) == SubSeq(seq, Len(seq) - Min(n, Len(seq)) + 1, Len(seq))
\* The records of the well-formed lines among `lines`, in their order.
WellFormedRecords(lines) ==
    LET good == SelectSeq(lines, LAMBDA l : l.json)
    IN  [i \in 1..Len(good) |-> good[i].v]
IsPrefix(p, q) == Len(p) <= Len(q) /\ SubSeq(q, 1, Len(p)) = p

\* C18: tail(limit) returns, in file order, exactly the well-formed records
\* among the last `limit` lines of the log, skipping malformed lines, so at
\* most `limit` records; it returns the empty list when limit <= 0 or the
\* file does not exist.
C18_TailLastWellFormed ==
    [][tcalls' = tcalls + 1 =>
          /\ (tlimit' <= 0 \/ ~logExists) => tout' = <<>>
          /\ (tlimit' > 0 /\ logExists) =>
                 /\ tout' = WellFormedRecords(LastN(logLines, tlimit'))
                 /\ Len(tout') <= tlimit']_vars

\* A tail of the last two lines of a three-line log whose middle line is
\* malformed returned the one record of the last line.
C18_Witness ==
    /\ tcalls > 0
    /\ tlimit = 2
    /\ logLines = <<GoodLine(1), BadLine, GoodLine(2)>>
    /\ tout = <<2>>

\* The lines of the log file that holds the incidents `log`, and what
\* tail(TailWindow) returns on it.
IncidentLines(log) == [i \in 1..Len(log) |-> GoodLine(log[i])]
TailOf(log) == IncidentTail(log # <<>>, IncidentLines(log), TailWindow)

\* C19, as stated: incidents in the log are never modified, reordered or
\* removed, and what an earlier tail returned is a prefix of what a later
\* tail returns.
C19_EarlierTailIsPrefix ==
    [][IsPrefix(incidents, incidents') /\ IsPrefix(TailOf(incidents), TailOf(incidents'))]_vars

\* C19, amended: the log only grows at its end, a tail returns the last
\* TailWindow incidents of it, and an earlier tail is a prefix of a later
\* one as long as the log has at most TailWindow lines.
C19_LogOnlyGrows ==
    [][/\ IsPrefix(incidents, incidents')
       /\ TailOf(incidents') = LastN(incidents', TailWindow)
       /\ Len(incidents') <= TailWindow => IsPrefix(TailOf(incidents), TailOf(incidents'))]_vars

\* The supervisor has recorded more incidents than a tail returns: the
\* first incident is still the first of the log, and not in the tail.
C19_Witness ==
    /\ Len(incidents) > TailWindow
    /\ incidents[1] = Incident("b1", "unhealthy")
    /\ TailOf(incidents) = LastN(incidents, TailWindow)
    /\ TailOf(incidents)[1] # incidents[1]

(* ------------------------------------------------------------------ *)
(* Properties of the tick's status filter                              *)
(* ------------------------------------------------------------------ *)
\* The statuses a tick is to leave alone.
Unsupervised == {ST_CREATED, ST_STOPPED, ST_FAILED, ST_ERROR}

\* C20: a tick acts only on bots whose status in its snapshot is RUNNING or
\* DEPLOYING.  The loop iteration for any other bot makes no executor call,
\* writes no registry record, changes no RestartState and appends no
\* incident, and the bot _handle_unhealthy works on is never such a bot.
C20_TickSkipsUnsupervised ==
    [][/\ (cur = "sup" /\ pc["sup"] = "tick" /\ todo # <<>> /\ todo' # todo
              /\ snap[Head(todo)].status \in Unsupervised) =>
             /\ pc'["sup"] = "tick" /\ tb' = tb /\ hbot' = hbot
             /\ reg' = reg /\ regFile' = regFile
             /\ rp' = rp /\ rc' = rc /\ procs' = procs /\ cont' = cont
             /\ failures' = failures /\ lastAttempt' = lastAttempt
             /\ nextAllowed' = nextAllowed
             /\ incidents' = incidents
       /\ pc'["sup"] \notin {"sleep", "tick"} =>
             snap'[tb'["sup"]].status \notin Unsupervised]_vars

\* A tick has gone through its snapshot, in which the bot is FAILED, and
\* has recorded nothing.
C20_Witness ==
    /\ cur = "sup"
    /\ pc["sup"] = "tick"
    /\ todo = <<>>
    /\ "b1" \in DOMAIN snap
    /\ snap["b1"].status = ST_FAILED
    /\ incidents = <<>>
    /\ failures["b1"] = 0

(* ------------------------------------------------------------------ *)
(* Properties of the supervisor against an operator's stop             *)
(* ------------------------------------------------------------------ *)
\* The operator's stop of b2 was answered 200 and b2 is as it left it:
\* STOPPED in the registry and without a tracked child.
StoppedByCaller ==
    /\ http = "200"
    /\ reg["b2"].status = ST_STOPPED
    /\ "b2" \notin DOMAIN rp

\* C21: a bot that another caller stopped with stop_bot (registry status
\* STOPPED) is not started again by the supervisor, also when that stop
\* completes while a tick is suspended on the heal of an earlier bot: the
\* supervisor issues no run_bot for the bot while it is stopped.
C21_NoRunOfStoppedBot ==
    [][(StoppedByCaller /\ pc["sup"] # "run_entry" /\ pc'["sup"] = "run_entry") =>
          tb'["sup"] # "b2"]_vars

(* ------------------------------------------------------------------ *)
(* Container engine                                                    *)
(* ------------------------------------------------------------------ *)
InEngine(o) == \E n \in CNames : containers[n] = o

MonitorEnded(o) == objs[o].monitor_task # 0 /\ monitors[objs[o].monitor_task].st = "done"

\* C22: a container whose child has ended on its own does not stay RUNNING: once
\* its monitor has seen the child gone and finished, the state is EXITED.
C22_ExitedAfterChildExit ==
    \A o \in DOMAIN objs : MonitorEnded(o) => objs[o].state # "running"

LiveChildren(o) == {k \in DOMAIN children : children[k].owner = o /\ children[k].st = "alive"}

ActiveMonitors(o) == {m \in DOMAIN monitors : monitors[m].owner = o /\ monitors[m].st = "active"}

\* C23: whatever engine calls were made, a container of the engine owns at most
\* one live child and at most one active monitor task.
C23_OneChildOneMonitor ==
    \A o \in DOMAIN objs :
        InEngine(o) => /\ Cardinality(LiveChildren(o)) <= 1
                       /\ Cardinality(ActiveMonitors(o)) <= 1

RemoveReturns == eop'.op = "remove" /\ epc' = "idle" /\ (ecnt' # ecnt \/ epc # "idle")

\* C24: when remove_container(name) ends, a known name has no entry any more,
\* however the stop inside it ended, and the other entries are untouched; an
\* unknown name gives ValueError (not found) and the same map.
C24_RemoveLeavesNoEntry ==
    [][RemoveReturns =>
          IF containers[eop'.name] # 0
          THEN /\ containers'[eop'.name] = 0
               /\ \A n \in CNames \ {eop'.name} : containers'[n] = containers[n]
          ELSE /\ eret' = "ValueError"
               /\ containers' = containers]_vars

C24_Witness ==
    /\ eop.op = "remove"
    /\ epc = "idle"
    /\ estop = "false"
    /\ eret = "true"
    /\ containers[eop.name] = 0

(* ------------------------------------------------------------------ *)
(* Supervisor life cycle                                               *)
(* ------------------------------------------------------------------ *)
ActiveLoops == {i \in DOMAIN loopTasks : ~Ended(i)}

SleepsAfterError(i) == i \in DOMAIN loopTasks /\ loopTasks[i].pc = "sleep" /\ loopTasks[i].err

TicksOrToldToEnd(i) ==
    i \in DOMAIN loopTasks /\ (loopTasks[i].pc = "tick" \/ stopEvent \/ loopTasks[i].cancel)

\* C25: an exception of tick() does not end the loop: a loop task ends only with
\* the stop flag set or a cancellation requested, and a task that sleeps after a
\* failed tick goes on to its next tick unless it is told to end.
C25_TickErrorNotFatal ==
    /\ [][\A i \in DOMAIN loopTasks :
             (~Ended(i) /\ loopTasks'[i].pc \in {"done", "cancelled"})
                 => (stopEvent \/ loopTasks[i].cancel)]_vars
    /\ \A i \in 1..MaxLifeCalls : SleepsAfterError(i) ~> TicksOrToldToEnd(i)

C25_Witness ==
    /\ Len(loopTasks) = 1
    /\ tickErrs < MaxTickErrs
    /\ loopTasks[1].pc = "tick"
    /\ ~stopEvent
    /\ ~loopTasks[1].cancel

\* C26: whatever start() and stop() calls were made, at most one loop task has
\* not ended, so no two ticks of the supervisor overlap.
C26_OneLoopTask == Cardinality(ActiveLoops) <= 1

C26_Witness ==
    /\ lifeOp = "start"
    /\ lifeRet = "already_running"
    /\ Cardinality(ActiveLoops) = 1
    /\ Len(loopTasks) = 1

\* C27: every call of start() leaves the stop flag clear and a loop task running.
C27_StartLeavesLoopRunning ==
    [][(lifeOp' = "start" /\ lifeCalls' # lifeCalls) =>
          /\ ~stopEvent'
          /\ supTask' # 0
          /\ loopTasks'[supTask'].pc \notin {"done", "cancelled"}]_vars

Halted == lifeOp = "stop" /\ stopPc = "idle" /\ lifeRet = "returned"

\* C28: once stop() has returned and until start() is called, no loop task begins
\* a tick or issues a stop_bot / run_bot call.
C28_NothingAfterStop ==
    [][Halted => \A i \in DOMAIN loopTasks :
                    loopTasks'[i].pc \in {"tick", "call"} => loopTasks'[i].pc = loopTasks[i].pc]_vars

C28_Witness ==
    /\ Halted
    /\ supTask # 0
    /\ loopTasks[supTask].pc = "cancelled"

(* ------------------------------------------------------------------ *)
(* Patch proposals                                                     *)
(* ------------------------------------------------------------------ *)
AllowedChanges ==
    {<<"proposed", "approved">>, <<"proposed", "rejected">>,
     <<"approved", "rejected">>, <<"approved", "applied">>}

\* C29: the stored status of a proposal changes only from proposed to approved or
\* rejected and from approved to rejected or applied; applied and rejected are final.
C29_StatusChanges ==
    [][\A q \in PIds :
          (patchFile[q].status # "none" /\ patchFile'[q].status \notin {"none", patchFile[q].status}) =>
              <<patchFile[q].status, patchFile'[q].status>> \in AllowedChanges]_vars

(* ------------------------------------------------------------------ *)
(* Incidents of one heal attempt                                       *)
(* ------------------------------------------------------------------ *)
Added == SubSeq(incidents', Len(incidents) + 1, Len(incidents'))

LastIs(b, kind) == incidents # <<>> /\ incidents[Len(incidents)] = [bot |-> b, kind |-> kind]

ContainerAtTick(b) == b \in DOMAIN snap /\ snap[b].dtype = DT_CONTAINER

InOrder(b, new) ==
    /\ \A i \in DOMAIN new : new[i].bot = b
    /\ IF new[1].kind = "quarantined" THEN Len(new) = 1
       ELSE IF new[1].kind = "unhealthy"
       THEN Len(new) = 1 /\ pc["sup"] = "handle" /\ pc'["sup"] = "stop_entry"
       ELSE IF new[1].kind = "restart"
       THEN Len(new) = 1 /\ LastIs(b, "unhealthy")
       ELSE IF new[1].kind = "restart_failed"
       THEN /\ LastIs(b, "unhealthy")
            /\ \/ Len(new) = 1
               \/ Len(new) = 2 /\ new[2].kind = "fallback_failed" /\ ContainerAtTick(b)
       ELSE /\ new[1].kind \in {"fallback", "fallback_failed"}
            /\ Len(new) = 1
            /\ LastIs(b, "restart_failed")
            /\ ContainerAtTick(b)

AttemptEnds == pc["sup"] \in {"h_after1", "h_after2"} /\ pc'["sup"] = "tick"

Closed(b, log) ==
    /\ log # <<>>
    /\ log[Len(log)].bot = b
    /\ IF ContainerAtTick(b)
       THEN log[Len(log)].kind \in {"restart", "fallback", "fallback_failed"}
       ELSE log[Len(log)].kind \in {"restart", "restart_failed"}

\* C30: a heal attempt below the quarantine limit records 'unhealthy' before it
\* calls the executor, then one of 'restart' / 'restart_failed' right after it,
\* and one of 'fallback' / 'fallback_failed' only after the 'restart_failed' of a
\* bot that was in container mode; when the attempt ends its records are complete.
C30_IncidentOrder ==
    [][/\ incidents' # incidents => (Len(incidents') > Len(incidents) /\ InOrder(tb["sup"], Added))
       /\ AttemptEnds => Closed(tb["sup"], incidents')]_vars

C30_Witness ==
    /\ Len(incidents) = 3
    /\ incidents[1] = [bot |-> "b1", kind |-> "unhealthy"]
    /\ incidents[2] = [bot |-> "b1", kind |-> "restart_failed"]
    /\ incidents[3] = [bot |-> "b1", kind |-> "fallback"]

(* ------------------------------------------------------------------ *)
(* Backoff gate                                                        *)
(* ------------------------------------------------------------------ *)
DeadlinePending(b) == nextAllowed[b] # -1 /\ now < nextAllowed[b]

\* C31: _handle_unhealthy for a bot whose backoff deadline has not passed leaves
\* the failure count, last_attempt_at and next_allowed_at as they are, appends no
\* incident, calls no executor operation and writes no registry record.
C31_GatedObservationNoEffect ==
    [][(cur = "sup" /\ pc["sup"] = "handle" /\ DeadlinePending(tb["sup"])) =>
          /\ failures' = failures
          /\ lastAttempt' = lastAttempt
          /\ nextAllowed' = nextAllowed
          /\ incidents' = incidents
          /\ reg' = reg
          /\ regFile' = regFile
          /\ pc'["sup"] = "tick"
          /\ rp' = rp /\ rc' = rc /\ cont' = cont /\ procs' = procs]_vars

\* C31 witness: a gated observation has happened: the bot has been handed to
\* _handle_unhealthy more often than its failure count has grown.
C31_Witness ==
    /\ obs["b1"] > failures["b1"]
    /\ failures["b1"] >= 1
    /\ DeadlinePending("b1")
    /\ pc["sup"] = "tick"

(* ------------------------------------------------------------------ *)
(* The supervisor's fallback to local_process                          *)
(* ------------------------------------------------------------------ *)
(* One container-mode bot over two supervisor intervals, with API calls, *)
(* spawn faults and a crash.                                                *)
InitSwitch ==
    /\ reg = [b \in {"b1"} |-> NewRec(ST_CREATED, DT_CONTAINER)]
    /\ procs = <<>>
    /\ scriptOk = [b \in Bots |-> TRUE]
    /\ InitCommon
    /\ InitLibIdle
    /\ horizon = SwitchMaxTime
    /\ faultsLeft = MaxFaults
    /\ crashesLeft = ExecMaxCrashes
    /\ apiLeft = MaxApiCalls

SpecSwitch == InitSwitch /\ [][Next]_vars

\* The step is one of the supervisor's task (tick, heal, or an executor call made by it).
SupervisorActs == cur = "sup" \/ (cur = "none" /\ pc'["sup"] # pc["sup"])
DtypeChanged(b) == b \in DOMAIN reg /\ b \in DOMAIN reg' /\ reg'[b].dtype # reg[b].dtype
\* The first run_bot of this heal attempt raised and the bot was in container mode.
FallbackTaken == pc["sup"] = "h_after1" /\ res["sup"] # "true" /\ IsContainerMode(hbot.dtype)
\* The supervisor is inside the second run_bot of a heal attempt.
InFallbackRun == ret["sup"] = "h_after2" /\ pc["sup"] \notin {"h_after2", "tick", "sleep"}

\* C32: a step of the supervisor changes a bot's persisted deployment_type only
\* from a container mode to local_process, and only in a heal attempt whose
\* first run_bot raised (the switch itself or the fallback's run_bot rewriting
\* the switched record); when the fallback's run_bot has ended, with True or
\* with an exception, the record still present has local_process; the
\* supervisor never changes the deployment_type of a local_process record.
C32_FallbackSwitchesMode ==
    [][\A b \in Bots :
          /\ (SupervisorActs /\ DtypeChanged(b)) =>
                /\ reg[b].dtype # DT_LOCAL /\ reg'[b].dtype = DT_LOCAL
                /\ tb["sup"] = b
                /\ FallbackTaken \/ InFallbackRun
          /\ (cur = "sup" /\ pc["sup"] = "h_after2" /\ tb["sup"] = b /\ b \in DOMAIN reg)
                => reg[b].dtype = DT_LOCAL /\ reg'[b].dtype = DT_LOCAL]_vars

\* The live children held for a bot: its Popen handle in running_processes
\* and the child of its container bot-<id>.
HeldChildren(b) ==
    {p \in DOMAIN procs :
        /\ procs[p] = "alive"
        /\ \/ b \in DOMAIN rp /\ rp[b] = p
           \/ b \in DOMAIN cont /\ cont[b].proc = p}

\* C33: at every moment, whatever the interleaving of the API's start with the
\* supervisor's ticks, the executor holds at most one live child per bot id
\* and the id is in at most one of running_processes and running_containers.
C33_OneChildOneMap ==
    \A b \in Bots :
        /\ Cardinality(HeldChildren(b)) <= 1
        /\ ~(b \in DOMAIN rp /\ b \in rc)

(* ------------------------------------------------------------------ *)
(* run_bot when the registry cannot persist                            *)
(* ------------------------------------------------------------------ *)
\* update_bot(rec) whose _save raises or not: the cache has the record, the
\* file has the whole cache only when the save went through.
UpdateBotMaySave(b, rec, saveRaises) ==
    /\ reg' = [reg EXCEPT ![b] = rec]
    /\ regFile' = IF saveRaises THEN regFile ELSE [reg EXCEPT ![b] = rec]
    /\ qhold' = [x \in Bots |-> x \in DOMAIN reg /\ [reg EXCEPT ![b] = rec][x].status = ST_ERROR /\ qhold[x]]

\* run_bot whose update_bot(DEPLOYING) raises IOError out of _save: the
\* `except Exception` handler marks the record ERROR, calls update_bot again
\* (which may raise as well) and the exception leaves run_bot.
RunEntryPersistError(t) ==
    /\ Continues(t, "run_entry")
    /\ tb[t] \in DOMAIN reg /\ scriptOk[tb[t]]
    /\ ~IsContainerMode(loc[t].dtype)
    /\ faultsLeft > 0
    /\ \E again \in BOOLEAN :
          LET b == tb[t]
              H == OuterHandlerRec([loc[t] EXCEPT !.status = ST_DEPLOYING], "OSError")
          IN
          /\ again => faultsLeft > 1
          /\ faultsLeft' = faultsLeft - (IF again THEN 2 ELSE 1)
          /\ UpdateBotMaySave(b, H, again)
          /\ loc' = [loc EXCEPT ![t] = H]
          /\ Return(t, "OSError")
    /\ UNCHANGED <<execVars, cont, procs, ret, tb, fb, sp, ecalls, supVars, incidents, http,
                   scriptOk, clock, horizon, crashesLeft, apiLeft, obs, healAt, abot, libVars>>

\* _run_bot_locally resumes with the child spawned and recorded in
\* running_processes; its update_bot(RUNNING) raises IOError out of _save, and
\* run_bot's `except Exception` handler does as above.
RunLSpawnPersistError(t) ==
    /\ Resumes(t, "run_lspawn")
    /\ tb[t] \in DOMAIN reg
    /\ ~fb[t]
    /\ faultsLeft > 0
    /\ \E again \in BOOLEAN :
          LET b == tb[t]
              H == OuterHandlerRec([loc[t] EXCEPT !.status = ST_RUNNING, !.pid = NewPid], "OSError")
          IN
          /\ again => faultsLeft > 1
          /\ faultsLeft' = faultsLeft - (IF again THEN 2 ELSE 1)
          /\ procs' = Append(procs, "alive")
          /\ rp' = Put(rp, b, NewPid)
          /\ UpdateBotMaySave(b, H, again)
          /\ loc' = [loc EXCEPT ![t] = H]
          /\ Return(t, "OSError")
    /\ UNCHANGED <<rc, cont, ret, tb, fb, sp, ecalls, supVars, incidents, http,
                   scriptOk, clock, horizon, crashesLeft, apiLeft, obs, healAt, abot, libVars>>

(* One local-process bot started and stopped over the API while saves of the *)
(* registry file may fail.                                                   *)
InitPersist ==
    /\ reg = [b \in {"b1"} |-> NewRec(ST_CREATED, DT_LOCAL)]
    /\ procs = <<>>
    /\ \E ok \in BOOLEAN : scriptOk = [b \in Bots |-> IF b = "b1" THEN ok ELSE TRUE]
    /\ InitCommon
    /\ InitLibIdle
    /\ horizon = ExecMaxTime
    /\ faultsLeft = MaxFaults
    /\ crashesLeft = ExecMaxCrashes
    /\ apiLeft = PersistApiCalls

NextPersist ==
    \/ RunEntry("api")
    \/ RunLSpawn("api")
    \/ RunEntryPersistError("api")
    \/ RunLSpawnPersistError("api")
    \/ StopEntry("api")
    \/ StopLWait("api")
    \/ \E b \in Bots : ApiStart(b)
    \/ ApiStartDone
    \/ \E b \in Bots : ApiStop(b)
    \/ ApiStopDone
    \/ Advance
    \/ \E p \in DOMAIN procs : ChildExit(p)
    \/ TermExit("api")

SpecPersist == InitPersist /\ [][NextPersist]_vars

\* The step in which run_bot of task t ends by raising.
RunRaises(t) ==
    /\ pc[t] \in {"run_entry", "run_cstart", "run_lspawn"}
    /\ pc'[t] = ret[t]
    /\ res'[t] # "true"

\* C34: when run_bot raises, for whatever reason, a failed save of the
\* registry after the child was spawned included, the bot is in neither
\* tracking map and no child the call started is still running.
C34_RaiseLeavesNothing ==
    [][\A t \in Tasks :
          RunRaises(t) =>
             /\ tb[t] \notin DOMAIN rp'
             /\ tb[t] \notin rc'
             /\ \A p \in DOMAIN procs' : p \notin DOMAIN procs => procs'[p] # "alive"]_vars

\* The heal's run_bot is about to write the bot's record for the first time,
\* after a stop_bot of this heal that returned False.
HealFirstWrite(b) ==
    /\ cur = "sup" /\ pc["sup"] = "run_entry" /\ ret["sup"] = "h_after1"
    /\ res["sup"] = "false" /\ tb["sup"] = b
    /\ b \in DOMAIN reg /\ b \in DOMAIN reg'

\* C35: no update another caller committed to the registry is lost to the
\* supervisor: a lifecycle entry that another caller's stop_bot added to the
\* bot's record after the tick took its snapshot, and before the heal writes
\* the record, is still in the record after the heal's write.
C35_NoLostUpdate ==
    [][\A b \in Bots :
          (HealFirstWrite(b) /\ reg[b].logs > hbot.logs) => reg'[b].logs >= reg[b].logs]_vars

(* ------------------------------------------------------------------ *)
(* SecureRegistry when _save raises                                    *)
(* ------------------------------------------------------------------ *)
\* The call reached _save and atomic_save_json raised IOError: the cache
\* assignment made before _save stays, the file is as it was. import_registry
\* catches the error and returns False, the other operations let it through.
SaveFailed(o, call) ==
    /\ o.wrote
    /\ rcalls' = rcalls + 1
    /\ cache' = o.cache
    /\ saved' = saved
    /\ rop' = call
    /\ rret' = IF call.op \in {"import_registry", "import_registry:merge"} THEN "False" ELSE "IOError"
    /\ rhttp' = 0
    /\ rprev' = [rop EXCEPT !.ret = rret]

RegisterSaveFails(d) ==
    /\ rcalls < MaxRegOps
    /\ SaveFailed(register_bot(cache, d), Call("register_bot", BotId(d), d))
    /\ UNCHANGED <<coreVars, extVars, fsVars, tailVars>>

UpdateSaveFails(d) ==
    /\ rcalls < MaxRegOps
    /\ SaveFailed(update_bot(cache, d), Call("update_bot", BotId(d), d))
    /\ UNCHANGED <<coreVars, extVars, fsVars, tailVars>>

UpdateStatusSaveFails(i, st) ==
    /\ rcalls < MaxRegOps
    /\ SaveFailed(update_bot_status(cache, i, st, [f |-> "none", v |-> ""]),
                  Call("update_bot_status", i, BotDict(MISSING, MISSING, st)))
    /\ UNCHANGED <<coreVars, extVars, fsVars, tailVars>>

UnregisterSaveFails(i) ==
    /\ rcalls < MaxRegOps
    /\ SaveFailed(unregister_bot(cache, i), Call("unregister_bot", i, NoDict))
    /\ UNCHANGED <<coreVars, extVars, fsVars, tailVars>>

ImportSaveFails(entries, merge) ==
    /\ rcalls < MaxRegOps
    /\ SaveFailed(import_registry(cache, entries, merge),
                  Call(IF merge THEN "import_registry:merge" ELSE "import_registry", "", NoDict))
    /\ UNCHANGED <<coreVars, extVars, fsVars, tailVars>>

\* Dicts and files of the failing-save specification.
FaultDicts == {BotDict("a", "n1", MISSING), BotDict("b", "n2", "stopped")}
FaultFiles == {<<>>, <<BotDict("a", "n1", "created")>>,
               <<BotDict("a", "n1", "created"), BotDict("b", MISSING, "running")>>}

(* The registry under calls whose save may fail. *)
InitRegyFault ==
    /\ InitCoreIdle
    /\ ExtIdleInit
    /\ FsIdleInit
    /\ TailIdleInit
    /\ \E entries \in FaultFiles : RegyLoaded(entries)

NextRegyFault ==
    \/ \E d \in FaultDicts : CreateBot(d)
    \/ \E i \in {"a", "b"} : DeleteBot(i)
    \/ \E d \in FaultDicts : UpdateBotCall(d)
    \/ \E i \in {"a", "b"} : UpdateStatusCall(i, "running", [f |-> "none", v |-> ""])
    \/ \E entries \in ImportContents, merge \in BOOLEAN : ImportCall(entries, merge)
    \/ \E d \in FaultDicts : RegisterSaveFails(d)
    \/ \E d \in FaultDicts : UpdateSaveFails(d)
    \/ \E i \in {"a", "b"} : UpdateStatusSaveFails(i, "running")
    \/ \E i \in {"a", "b"} : UnregisterSaveFails(i)
    \/ \E entries \in ImportContents, merge \in BOOLEAN : ImportSaveFails(entries, merge)

SpecRegyFault == InitRegyFault /\ [][NextRegyFault]_vars

\* The call just made failed in _save.
PersistenceFailed ==
    /\ rcalls' = rcalls + 1
    /\ \/ rret' = "IOError"
       \/ rret' = "False" /\ rop'.op \in {"import_registry", "import_registry:merge"}

\* C36: when persistence fails inside register_bot, update_bot,
\* update_bot_status, unregister_bot or import_registry, the error is raised
\* (import_registry returns False) and the cache is as before the call, so
\* the cache and the file hold the same records.
C36_FailedSaveKeepsCache ==
    [][PersistenceFailed => (cache' = cache /\ load_initial_data(saved') = cache')]_vars

\* _handle_unhealthy takes its quarantine branch for bot b in this step.
Quarantines(b) ==
    /\ cur = "sup" /\ pc["sup"] = "handle" /\ tb["sup"] = b
    /\ ~DeadlinePending(b)
    /\ failures[b] + 1 > MaxFailures

\* C37: a bot is quarantined only when more than max_failures unhealthy
\* observations in a row preceded: once a tick has observed the bot healthy
\* after a successful restart, the failures before it no longer count.
C37_QuarantineOnlyConsecutive ==
    [][\A b \in Bots : Quarantines(b) => obs'[b] > MaxFailures]_vars

\* _handle_unhealthy ends for bot b with its restart failed and no fallback
\* that succeeded: restart_failed for a local bot, fallback_failed otherwise.
HealFails(b) ==
    /\ cur = "sup" /\ tb["sup"] = b /\ res["sup"] # "true"
    /\ \/ pc["sup"] = "h_after1" /\ ~IsContainerMode(hbot.dtype)
       \/ pc["sup"] = "h_after2"

\* A heal attempt or a quarantine of bot b starts in this step.
AttemptCounted(b) == failures'[b] # failures[b]

\* C38: a heal attempt whose restart fails and whose fallback, if any, does
\* not succeed leaves the registry status FAILED or ERROR; every tick takes a
\* fresh snapshot of the registry, and a heal attempt or a quarantine is only
\* ever made for a bot whose snapshot status is RUNNING or DEPLOYING, so the
\* bot is skipped until another caller sets one of these statuses again.
C38_FailedHealParksBot ==
    [][\A b \in Bots :
          /\ HealFails(b) =>
                /\ b \in DOMAIN reg' /\ reg'[b].status \in {ST_FAILED, ST_ERROR}
                /\ pc'["sup"] = "tick"
          /\ AttemptCounted(b) =>
                /\ b \in DOMAIN snap /\ snap[b].status \in {ST_RUNNING, ST_DEPLOYING}
          /\ (pc["sup"] = "sleep" /\ pc'["sup"] = "tick") => snap' = reg]_vars

\* C38 witness: the heal of b1 failed, the record is FAILED or ERROR and the
\* next tick has taken that record in its snapshot and passed over the bot.
C38_Witness ==
    /\ incidents # <<>>
    /\ incidents[Len(incidents)].bot = "b1"
    /\ incidents[Len(incidents)].kind \in {"restart_failed", "fallback_failed"}
    /\ pc["sup"] = "tick" /\ cur = "sup" /\ todo = <<>>
    /\ "b1" \in DOMAIN snap /\ snap["b1"].status \in {ST_FAILED, ST_ERROR}
    /\ failures["b1"] = 1

\* One of register_bot, update_bot, update_bot_status, unregister_bot has
\* just returned normally, having saved the registry.
MutationSucceeded ==
    /\ rcalls' = rcalls + 1
    /\ rop'.op \in {"register_bot", "update_bot", "update_bot_status", "unregister_bot"}
    /\ rret' \in {"ok", "True"}

\* C39: after successful calls of register_bot, update_bot, update_bot_status
\* and unregister_bot, a new SecureRegistry loaded from the same file holds
\* exactly the ids and records of the first registry's cache.
C39_ReloadEqualsCache ==
    [][MutationSucceeded => load_initial_data(saved') = cache']_vars

(* ------------------------------------------------------------------ *)
(* Adaptive executor: monitor_and_heal                                 *)
(* ------------------------------------------------------------------ *)
\* What the psutil calls of monitor_and_heal show of child p: "gone" when
\* is_running() is false or NoSuchProcess is raised, else the usage measured.
\* An exited child nobody has waited for is a zombie, which psutil either
\* reports as gone (ZombieProcess) or as a process using nothing.
PsutilView(p, u) ==
    IF procs[p] = "reaped" THEN {"gone"}
    ELSE IF procs[p] = "zombie" THEN {"gone", "normal"}
    ELSE {u, "access_denied"}

\* The record written for a child that stays: one more performance entry,
\* and the warning in last_error when the CPU threshold is exceeded.
MonitoredRec(L, seen) ==
    [L EXCEPT !.logs = L.logs + 1,
              !.lerr = IF seen = "cpu" THEN "cpu_threshold_exceeded" ELSE L.lerr]

\* monitor_and_heal(bot_id) up to its return or to its call of stop_bot.
MonitorCall(b) ==
    /\ Resumes("api", "idle")
    /\ apiLeft > 0
    /\ apiLeft' = apiLeft - 1
    /\ b \notin rc
    /\ IF b \notin DOMAIN rp
       THEN /\ http' = "null"
            /\ UNCHANGED <<regVars, pc, ret, tb, cur>>
       ELSE IF b \notin DOMAIN reg
       THEN /\ http' = "bot_not_in_registry"
            /\ UNCHANGED <<regVars, pc, ret, tb, cur>>
       ELSE \E seen \in PsutilView(rp[b], usage[b]) :
               IF seen \in {"gone", "memory"}
               THEN /\ http' = "pending"
                    /\ tb' = [tb EXCEPT !["api"] = b]
                    /\ ret' = [ret EXCEPT !["api"] = IF seen = "gone" THEN "mon_terminated"
                                                                      ELSE "mon_memory"]
                    /\ Goto("api", "stop_entry")
                    /\ UNCHANGED regVars
               ELSE IF seen = "access_denied"
               THEN /\ http' = "access_denied"
                    /\ UNCHANGED <<regVars, pc, ret, tb, cur>>
               ELSE /\ UpdateBot(b, MonitoredRec(reg[b], seen))
                    /\ http' = "null"
                    /\ UNCHANGED <<pc, ret, tb, cur>>
    /\ UNCHANGED <<execVars, cont, procs, res, loc, fb, sp, ecalls, abot, supVars, incidents,
                   scriptOk, clock, horizon, faultsLeft, crashesLeft, obs, healAt, libVars>>

\* stop_bot has returned: monitor_and_heal returns its reason string.
MonitorDone ==
    /\ cur = "api"
    /\ pc["api"] \in {"mon_terminated", "mon_memory"}
    /\ http' = IF pc["api"] = "mon_terminated" THEN "process_terminated"
                                                ELSE "memory_limit_exceeded"
    /\ ApiFrameDropped
    /\ UNCHANGED <<regVars, execVars, cont, procs, supVars, incidents, envVars, obs, healAt, libVars>>

\* The tracked child of bot b starts to use more or less CPU or memory.
UsageChange(b, u) ==
    /\ cur = "none"
    /\ b \in DOMAIN rp
    /\ procs[rp[b]] = "alive"
    /\ usage[b] # u
    /\ usage' = [usage EXCEPT ![b] = u]
    /\ UNCHANGED <<coreVars, fsVars, regyVars, tailVars, engVars, loopVars, patchVars>>

(* One local bot started over the API and then monitored. *)
InitMon ==
    /\ reg = [b \in {"b1"} |-> NewRec(ST_CREATED, DT_LOCAL)]
    /\ procs = <<>>
    /\ scriptOk = [b \in Bots |-> TRUE]
    /\ InitCommon
    /\ InitLibIdle
    /\ horizon = 0
    /\ faultsLeft = 0
    /\ crashesLeft = ExecMaxCrashes
    /\ apiLeft = MonApiCalls

NextMon ==
    \/ \E b \in Bots : ApiStart(b)
    \/ RunEntry("api")
    \/ RunLSpawn("api")
    \/ ApiStartDone
    \/ \E b \in Bots : MonitorCall(b)
    \/ MonitorDone
    \/ StopEntry("api")
    \/ StopLWait("api")
    \/ TermExit("api")
    \/ \E p \in DOMAIN procs : ChildExit(p)
    \/ \E b \in Bots, u \in {"normal", "cpu", "memory"} : UsageChange(b, u)

SpecMon == InitMon /\ [][NextMon]_vars

\* monitor_and_heal returns a reason after its stop_bot.
MonitorStopped == cur = "api" /\ pc["api"] \in {"mon_terminated", "mon_memory"}
\* monitor_and_heal calls stop_bot for bot b in this step.
MonitorStops(b) == pc["api"] = "idle" /\ pc'["api"] = "stop_entry" /\ tb'["api"] = b
\* monitor_and_heal writes bot b's record and returns None in this step.
MonitorKeeps(b) == pc["api"] = "idle" /\ http' = "null" /\ b \in DOMAIN reg /\ reg'[b] # reg[b]

\* C40: for a process-tracked bot in the registry, monitor_and_heal stops the
\* bot exactly when its process is seen gone or its memory is over the
\* threshold, returns 'process_terminated' or 'memory_limit_exceeded' and
\* leaves the bot untracked with status STOPPED; when only the CPU threshold
\* is exceeded the bot stays tracked and RUNNING, last_error carries the
\* warning and the result is null.
C40_MonitorOutcome ==
    [][\A b \in Bots :
          /\ (MonitorStopped /\ tb["api"] = b) =>
                /\ b \notin DOMAIN rp' /\ b \notin rc'
                /\ b \in DOMAIN reg' /\ reg'[b].status = ST_STOPPED
                /\ http' = IF pc["api"] = "mon_terminated"
                           THEN "process_terminated" ELSE "memory_limit_exceeded"
          /\ MonitorStops(b) => (procs[rp[b]] # "alive" \/ usage[b] = "memory")
          /\ MonitorKeeps(b) =>
                /\ procs[rp[b]] # "reaped"
                /\ procs[rp[b]] = "alive" => usage[b] # "memory"
                /\ b \in DOMAIN rp' /\ reg'[b].status = reg[b].status
                /\ (usage[b] = "cpu" /\ procs[rp[b]] = "alive")
                      => reg'[b].lerr = "cpu_threshold_exceeded"]_vars

====
